---- MODULE Spec2Model ----
(***************************************************************************)
(* A model of botlet's delivery backbone: the MessageQueue singleton, its  *)
(* processor threads and FileLock (services/message_queue.py,              *)
(* services/file_lock.py, app.py) and the RateLimiter                      *)
(* (services/rate_limiter.py).                                             *)
(*                                                                         *)
(* Time: the queue's timestamps are kept relative to the clock.  A row's   *)
(* next_retry holds the seconds left until next_retry <= now (0: due) and  *)
(* created_at the rank of the row's creation second (the code only orders  *)
(* by it).  The waits run in the granularity of the retry schedule: the    *)
(* end of the second in which a row was inserted does not shorten them.    *)
(* Whether a cached webhook id is older than DUPLICATE_WINDOW is the       *)
(* environment's choice.                                                   *)
(*                                                                         *)
(* Storage abstraction: every SQL statement executes atomically against    *)
(* the database and succeeds or fails by its own constraints (UNIQUE,      *)
(* PRIMARY KEY, WHERE); lock time-outs of the storage engine are not part  *)
(* of the model.  MD5 is taken to be injective on the strings hashed.      *)
(***************************************************************************)
EXTENDS Integers, Sequences, FiniteSets, TLC

\* ------------------------------------------------------------------ bounds
MaxRows == 2          \* rows the queue table may hold
MaxProcs == 2         \* thread slots for _process_queue threads
MaxCallers == 2       \* request threads calling the queue API concurrently
MaxRetryCount == 2    \* a delivery may fail only while retry_count is below this
MaxFailures == 5      \* the same cap where the whole retry schedule is followed
MaxInFlight == 12     \* check_rate_limit calls that have not returned
MaxArrivals == 21     \* requests of one sender remembered within a burst window
MaxReminders == 2     \* rows the reminders table may ever hold
MaxNow == 5           \* units of six hours the clock runs within a month
MaxPoolThreads == 3   \* threads using the connection pool
MaxNesting == 2       \* connections one thread holds at a time
MaxSetters == 1       \* set_reminder calls that have stored and not yet notified
MaxLocks == 2         \* FileLock objects made for the processor's lock path
MaxSenderCalls == 2   \* check_rate_limit calls in flight where two senders call
MaxOwnRequests == 2   \* requests of the sender whose results are watched
MaxLockThreads == 2   \* threads calling the FileLock objects

Procs == 1..MaxProcs
Callers == 1..MaxCallers

\* ------------------------------------------------------- program constants
BATCH_LIMIT == 10           \* LIMIT 10 of the processor's SELECT
max_retries == 3            \* MessageQueue.__init__ default (never read again)

\* RateLimiter.__init__
WINDOW_SIZE == 3600
MAX_REQUESTS == 100
BURST_WINDOW == 60
BURST_LIMIT == 20
BLOCK_DURATION == 3600
RAPID_FIRE_COUNT == 10
RAPID_FIRE_WINDOW == 30
SUSTAINED_HIGH_COUNT == 50
SUSTAINED_HIGH_WINDOW == 600

\* MessageStatus
PENDING == "pending"
IN_PROGRESS == "in_progress"
COMPLETED == "completed"
FAILED == "failed"
CANCELLED == "cancelled"
MessageStatus == {PENDING, IN_PROGRESS, COMPLETED, FAILED, CANCELLED}

\* ------------------------------------------------------------ input domains
\* Strings are sequences of tokens, so that the hash input can be computed by
\* concatenation as the code does.
Users == {<<"1">>}
Messages == {<<"a">>, <<"a", ":", "b">>}
NoWebhookId == <<>>
WebhookIds == {<<"b">>}
MessageIds == {<<"b">>, <<"c">>}     \* ids WhatsApp gives to inbound messages

VARIABLES
    main_pc,           \* position of initialize_services in app.py
    initialized,       \* MessageQueue._initialized
    lock_handle,       \* _processor_lock.lock_handle is not None
    thread_lock,       \* _processor_lock._thread_lock is held
    proc,              \* the _process_queue threads: [pc, batch]
    message_queue,     \* table message_queue: sequence of rows, index = id
    webhook_messages,  \* table webhook_messages: set of webhook ids
    wh_cache,          \* _webhook_messages: the webhook ids cached
    enq,               \* enqueue_message calls between duplicate check and INSERT
    same_second,       \* a row was inserted in the current second
    failures,          \* history: failed delivery attempts per row id
    token_expired,     \* history: notifier asked for a token refresh, none done yet
    last               \* history: the call made in the last step and its result

VARIABLES
    pace,              \* seconds between two requests of the traffic
    utc_offset,        \* the process's local time zone: seconds east of UTC
    tick_due,          \* a request has arrived, the next comes pace seconds later
    rl_lock,           \* RateLimiter._lock is held
    rl_at,             \* check_rate_limit calls in flight: sender -> position -> number
    request_counts,    \* _request_counts: sender -> ages (s) of the request marks
    blocked_users,     \* _blocked_users: sender -> seconds until unblock_time (0: none)
    user_blocks,       \* table user_blocks: sender -> seconds until block_end (0: no row)
    arrivals,          \* history: sender -> ages of the requests of the last BURST_WINDOW
    rl_last            \* history: the call that returned in the last step

VARIABLES
    rs_now,                 \* the UTC clock, in units of six hours
    reminders,              \* table reminders: sequence of rows, index = id
    user_sessions,          \* table user_sessions: owner -> "none", "fresh" or "old"
    has_pending_reminders,  \* ReminderService.has_pending_reminders is set
    rs_pc,                  \* position of the _check_reminders thread
    due_reminders,          \* due_reminders still to be processed by the for loop
    notify_due,             \* set_reminder calls that have stored and not yet notified
    signalled,              \* history: notified since the last pre-check
    rs_last                 \* history: what the last step did

VARIABLES
    pool_initialized,       \* ConnectionPool._initialized
    pool,                   \* ConnectionPool._pool: the idle connections
    active_connections,     \* ConnectionPool._active_connections
    handles,                \* thread -> the connections it holds
    connections,            \* connections made so far
    pool_last               \* history: the call made in the last step

qvars == <<main_pc, initialized, lock_handle, thread_lock, proc, message_queue,
           webhook_messages, wh_cache, enq, same_second, failures, token_expired, last>>

rvars == <<pace, utc_offset, tick_due, rl_lock, rl_at, request_counts, blocked_users, user_blocks,
           arrivals, rl_last>>

mvars == <<rs_now, reminders, user_sessions, has_pending_reminders, rs_pc, due_reminders,
           notify_due, signalled, rs_last>>

VARIABLES
    file_locks,             \* FileLock objects made for one path: <<lock_handle, _thread_lock>>
    fl_pc,                  \* thread -> the object whose release() it is inside (0: none)
    fl_hist,                \* history: object -> outcome of its latest acquire/release
    fl_last                 \* history: the call made in the last step

VARIABLES
    processed_messages,     \* app.py's cache of the ids of the inbound messages seen
    user_timezones,         \* table user_timezones: user -> the zone the user has set
    stop_event,             \* ReminderService.stop_event
    stop_pc                 \* where the caller of ReminderService.stop() is

pvars == <<pool_initialized, pool, active_connections, handles, connections, pool_last>>

fvars == <<file_locks, fl_pc, fl_hist, fl_last>>

avars == <<processed_messages, user_timezones, stop_event, stop_pc>>

vars == <<qvars, rvars, mvars, pvars, fvars, avars>>

\* What the steps of one subsystem leave alone.
not_queue == <<rvars, mvars, pvars, fvars, avars>>

not_rate == <<qvars, mvars, pvars, fvars, avars>>

not_reminder == <<qvars, rvars, pvars, fvars, avars>>

not_pool == <<qvars, rvars, mvars, fvars, avars>>

not_filelock == <<qvars, rvars, mvars, pvars, avars>>

\* ------------------------------------------------------------------ helpers
Min(a, b) == IF a <= b THEN a ELSE b

Max(a, b) == IF a >= b THEN a ELSE b

RowIds == 1..Len(message_queue)

NoReq == [pc |-> "idle", user_id |-> <<>>, message |-> <<>>, wid |-> <<>>]

\* What a step did: op is "enqueue", "cancel", "deliver" or "none"; id the row
\* concerned (0: none); val the value returned; arg the content hash of an
\* "enqueue", <<responder's status, notifier's result>> of a "deliver", else
\* <<>>.
Call(op, id, val, arg) == [op |-> op, id |-> id, val |-> val, arg |-> arg]

NoCall == Call("none", 0, FALSE, <<>>)

\* _generate_message_hash: md5 of f"{user_id}:{message}:{webhook_id}"
GenerateMessageHash(user_id, message, wid) ==
    user_id \o <<":">> \o message \o <<":">> \o wid

\* ---------------------------------------------------------------- FileLock
\* FileLock.__init__: a fresh object, not held.  Assigning it to
\* self._processor_lock drops the previous object, whose __del__ releases it.
\* Yields <<lock_handle, thread_lock>>.
FileLock_New == <<FALSE, FALSE>>

\* FileLock.acquire(blocking=True, ...): blocks while the thread lock is held;
\* force, max_age and timeout are ignored by the code.
FileLock_CanAcquire == ~thread_lock

\* FileLock.is_locked
FileLock_IsLocked == lock_handle

\* --------------------------------------------------- MessageQueue start-up
Running == {t \in Procs : proc[t].pc # "none"}

FreeSlot == CHOOSE t \in Procs : proc[t].pc = "none" /\ \A s \in Procs : proc[s].pc = "none" => t <= s

\* MessageQueue.__init__ up to _ensure_tables: runs only when _initialized is
\* false; creates a new FileLock for the processor.
MQ_InitBegin(from, to) ==
    /\ main_pc = from
    /\ ~initialized
    /\ lock_handle' = FileLock_New[1]
    /\ thread_lock' = FileLock_New[2]
    /\ main_pc' = to
    /\ last' = NoCall
    /\ UNCHANGED <<initialized, proc, message_queue, webhook_messages, wh_cache, enq,
                   same_second, failures, token_expired>>
    /\ UNCHANGED not_queue

\* _start_queue_processor, then _initialized = True: acquires the processor
\* lock and starts a _process_queue thread.
StartQueueProcessor(from, to) ==
    /\ main_pc = from
    /\ FileLock_CanAcquire
    /\ \E t \in Procs : proc[t].pc = "none"
    /\ thread_lock' = TRUE
    /\ lock_handle' = TRUE
    /\ proc' = [proc EXCEPT ![FreeSlot] = [pc |-> "loop", batch |-> <<>>]]
    /\ initialized' = TRUE
    /\ main_pc' = to
    /\ last' = NoCall
    /\ UNCHANGED <<message_queue, webhook_messages, wh_cache, enq, same_second, failures,
                   token_expired>>
    /\ UNCHANGED not_queue

\* initialize_services: queue = MessageQueue()
Construct == MQ_InitBegin("start", "init1")

ConstructStart == StartQueueProcessor("init1", "constructed")

\* initialize_services: queue._initialized = False  # Force reinitialization
ForceReinit ==
    /\ main_pc = "constructed"
    /\ initialized' = FALSE
    /\ main_pc' = "reset"
    /\ last' = NoCall
    /\ UNCHANGED <<lock_handle, thread_lock, proc, message_queue, webhook_messages,
                   wh_cache, enq, same_second, failures, token_expired>>
    /\ UNCHANGED not_queue

\* initialize_services: queue.__init__()
Reinit == MQ_InitBegin("reset", "init2")

ReinitStart == StartQueueProcessor("init2", "serving")

Serving == main_pc = "serving"

\* ----------------------------------------------------------------- enqueue
\* is_duplicate_webhook: <<result, _webhook_messages afterwards>>.  The
\* entries older than DUPLICATE_WINDOW, expired, are dropped first.
IsDuplicateWebhook(w, expired) ==
    IF w = NoWebhookId THEN <<FALSE, wh_cache>>
    ELSE LET cache == wh_cache \ expired IN
         IF w \in cache THEN <<TRUE, cache>>
         ELSE IF w \in webhook_messages THEN <<TRUE, cache \cup {w}>>
         ELSE <<FALSE, cache>>

\* A table without the UNIQUE index on message_hash.
HashExists_NoIndex(h) == FALSE

\* UNIQUE on message_queue.message_hash
HashExists(h) == \E i \in RowIds : message_queue[i].message_hash = h

\* The table is bounded: an INSERT that would add a row needs room.
RoomFor(h) == HashExists(h) \/ Len(message_queue) < MaxRows

\* CURRENT_TIMESTAMP of a new row, as a rank: that of the rows inserted in
\* this same second, else one above every earlier row.
CreatedAt ==
    IF message_queue = <<>> THEN 1
    ELSE LET latest == message_queue[Len(message_queue)].created_at IN
         IF same_second THEN latest ELSE latest + 1

NewRow(user_id, message, metadata, h, committed) ==
    [user_id |-> user_id, message |-> message, metadata |-> metadata, message_hash |-> h,
     status |-> PENDING, retry_count |-> 0, next_retry |-> 0, created_at |-> CreatedAt,
     committed |-> committed]

\* The metadata dict of enqueue_message, by the two keys that may hold the
\* id of an inbound event; <<>> for a key that is absent.
Metadata(webhook_message_id, message_id) ==
    [webhook_message_id |-> webhook_message_id, message_id |-> message_id]

NoMetadata == Metadata(NoWebhookId, NoWebhookId)

\* The id of the inbound event a metadata dict carries.
InboundEventId(metadata) ==
    IF metadata.webhook_message_id # NoWebhookId THEN metadata.webhook_message_id
    ELSE metadata.message_id

\* What an enqueue_message call did: as Call, with its arguments.
EnqueueCall(id, val, h, user_id, message, metadata) ==
    [op |-> "enqueue", id |-> id, val |-> val, arg |-> h, user_id |-> user_id,
     message |-> message, metadata |-> metadata]

\* conn.commit() on a pooled connection: rows an earlier call left uncommitted
\* on that same connection become durable with it.
Commit(q, flush) ==
    IF flush THEN [i \in 1..Len(q) |-> [q[i] EXCEPT !.committed = TRUE]] ELSE q

\* The INSERTs and the commit of enqueue_message, for a call that got past
\* the webhook duplicate check.
InsertMessage(user_id, message, metadata, flush) ==
    LET wid == metadata.webhook_message_id
        h == GenerateMessageHash(user_id, message, wid) IN
    IF HashExists(h)
    THEN \* IntegrityError on message_queue.message_hash: return False
         /\ last' = EnqueueCall(0, FALSE, h, user_id, message, metadata)
         /\ UNCHANGED <<message_queue, webhook_messages, failures, same_second>>
    ELSE IF wid # NoWebhookId /\ wid \in webhook_messages
    THEN \* IntegrityError on webhook_messages: return False, the queue row
         \* stays uncommitted on the pooled connection
         /\ message_queue' = Append(message_queue, NewRow(user_id, message, metadata, h, FALSE))
         /\ failures' = Append(failures, 0)
         /\ same_second' = TRUE
         /\ last' = EnqueueCall(0, FALSE, h, user_id, message, metadata)
         /\ UNCHANGED webhook_messages
    ELSE /\ message_queue' = Commit(Append(message_queue, NewRow(user_id, message, metadata, h, TRUE)), flush)
         /\ failures' = Append(failures, 0)
         /\ same_second' = TRUE
         /\ webhook_messages' = IF wid = NoWebhookId THEN webhook_messages
                                ELSE webhook_messages \cup {wid}
         /\ last' = EnqueueCall(Len(message_queue) + 1, TRUE, h, user_id, message, metadata)

\* enqueue_message without a webhook_message_id in the metadata
EnqueuePlain(c) ==
    /\ Serving
    /\ enq[c].pc = "idle"
    /\ \E user_id \in Users, message \in Messages, flush \in BOOLEAN :
          /\ RoomFor(GenerateMessageHash(user_id, message, NoWebhookId))
          /\ InsertMessage(user_id, message, NoMetadata, flush)
    /\ UNCHANGED <<main_pc, initialized, lock_handle, thread_lock, proc, wh_cache, enq,
                   token_expired>>
    /\ UNCHANGED not_queue

\* enqueue_message with a webhook_message_id: the duplicate check
EnqueueCheckIn(c, ids) ==
    /\ Serving
    /\ enq[c].pc = "idle"
    /\ \E user_id \in Users, message \in Messages, wid \in ids,
          expired \in SUBSET wh_cache :
          LET d == IsDuplicateWebhook(wid, expired) IN
          /\ wh_cache' = d[2]
          /\ IF d[1]
             THEN /\ last' = EnqueueCall(0, FALSE, GenerateMessageHash(user_id, message, wid),
                                          user_id, message, Metadata(wid, NoWebhookId))
                  /\ enq' = enq
             ELSE /\ enq' = [enq EXCEPT ![c] = [pc |-> "insert", user_id |-> user_id,
                                                message |-> message, wid |-> wid]]
                  /\ last' = NoCall
    /\ UNCHANGED <<main_pc, initialized, lock_handle, thread_lock, proc, message_queue,
                   webhook_messages, same_second, failures, token_expired>>
    /\ UNCHANGED not_queue

EnqueueCheck(c) == EnqueueCheckIn(c, WebhookIds)

\* enqueue_message with a webhook_message_id: the INSERTs
EnqueueInsert(c) ==
    /\ enq[c].pc = "insert"
    /\ RoomFor(GenerateMessageHash(enq[c].user_id, enq[c].message, enq[c].wid))
    /\ \E flush \in BOOLEAN :
          InsertMessage(enq[c].user_id, enq[c].message, Metadata(enq[c].wid, NoWebhookId), flush)
    /\ enq' = [enq EXCEPT ![c] = NoReq]
    /\ UNCHANGED <<main_pc, initialized, lock_handle, thread_lock, proc, wh_cache,
                   token_expired>>
    /\ UNCHANGED not_queue

\* ----------------------------------------------------------- webhook intake
\* is_message_processed of app.py: <<result, processed_messages afterwards>>.
\* The cache holds MAX_CACHE_SIZE ids, more than are ever received here.
IsMessageProcessed(msg_id) ==
    IF msg_id \in processed_messages THEN <<TRUE, processed_messages>>
    ELSE <<FALSE, processed_messages \cup {msg_id}>>

\* webhook() for a text message of an authorized sender whom the rate limiter
\* admits: the two duplicate checks, then enqueue_message with the id of the
\* inbound message under the key "message_id" of the metadata.
Webhook(c) ==
    /\ Serving
    /\ enq[c].pc = "idle"
    /\ \E from_number \in Users, text \in Messages, message_id \in MessageIds,
          expired \in SUBSET wh_cache, flush \in BOOLEAN :
          LET p == IsMessageProcessed(message_id)
              d == IsDuplicateWebhook(message_id, expired) IN
          /\ processed_messages' = p[2]
          /\ IF p[1]
             THEN /\ last' = Call("webhook", 0, FALSE, <<"duplicate">>)
                  /\ UNCHANGED <<wh_cache, message_queue, webhook_messages, failures,
                                 same_second>>
             ELSE /\ wh_cache' = d[2]
                  /\ IF d[1]
                     THEN /\ last' = Call("webhook", 0, FALSE, <<"duplicate">>)
                          /\ UNCHANGED <<message_queue, webhook_messages, failures,
                                         same_second>>
                     ELSE /\ RoomFor(GenerateMessageHash(from_number, text, NoWebhookId))
                          /\ InsertMessage(from_number, text,
                                           Metadata(NoWebhookId, message_id), flush)
    /\ UNCHANGED <<main_pc, initialized, lock_handle, thread_lock, proc, enq, token_expired>>
    /\ UNCHANGED <<rvars, mvars, pvars, fvars, user_timezones, stop_event, stop_pc>>

\* Table authorized_numbers: the senders of Users are in it, and there is a
\* sender who is not.
AuthorizedNumbers == Users

Stranger == <<"9">>

\* is_number_authorized: SELECT 1 FROM authorized_numbers WHERE phone_number = ?
IsNumberAuthorized(phone_number) == phone_number \in AuthorizedNumbers

\* "Sorry, this number is not authorized to use this service."
UnauthorizedReply == <<"sorry">>

\* webhook() for a message of a sender who is not authorized and whom the
\* rate limiter admits: the two duplicate checks, then the text of the
\* refusal is enqueued for the sender, with a metadata dict that holds no id,
\* and 403 'Unauthorized number' is returned whatever enqueue_message did.
WebhookUnauthorized(c) ==
    /\ Serving
    /\ enq[c].pc = "idle"
    /\ ~IsNumberAuthorized(Stranger)
    /\ \E message_id \in MessageIds, expired \in SUBSET wh_cache, flush \in BOOLEAN :
          LET p == IsMessageProcessed(message_id)
              d == IsDuplicateWebhook(message_id, expired) IN
          /\ processed_messages' = p[2]
          /\ IF p[1]
             THEN /\ last' = Call("webhook", 0, FALSE, <<"duplicate">>)
                  /\ UNCHANGED <<wh_cache, message_queue, webhook_messages, failures,
                                 same_second>>
             ELSE /\ wh_cache' = d[2]
                  /\ IF d[1]
                     THEN /\ last' = Call("webhook", 0, FALSE, <<"duplicate">>)
                          /\ UNCHANGED <<message_queue, webhook_messages, failures,
                                         same_second>>
                     ELSE /\ RoomFor(GenerateMessageHash(Stranger, UnauthorizedReply,
                                                         NoWebhookId))
                          /\ InsertMessage(Stranger, UnauthorizedReply, NoMetadata, flush)
    /\ UNCHANGED <<main_pc, initialized, lock_handle, thread_lock, proc, enq, token_expired>>
    /\ UNCHANGED <<rvars, mvars, pvars, fvars, user_timezones, stop_event, stop_pc>>

\* ------------------------------------------------------------------ cancel
\* cancel_message: UPDATE ... SET status = 'cancelled' WHERE id = ? AND
\* status = 'pending', on a connection of its own; returns rowcount > 0.
\* An UPDATE without the status test in its WHERE.
CancelHits_AnyStatus(id) ==
    /\ id \in RowIds
    /\ message_queue[id].committed

CancelHits(id) ==
    /\ id \in RowIds
    /\ message_queue[id].committed
    /\ message_queue[id].status = PENDING

CancelMessage(id) ==
    /\ Serving
    /\ IF CancelHits(id)
       THEN message_queue' = [message_queue EXCEPT ![id].status = CANCELLED]
       ELSE message_queue' = message_queue
    /\ last' = Call("cancel", id, CancelHits(id), <<>>)
    /\ UNCHANGED <<main_pc, initialized, lock_handle, thread_lock, proc, webhook_messages,
                   wh_cache, enq, same_second, failures, token_expired>>
    /\ UNCHANGED not_queue

\* --------------------------------------------------------------- processor
\* _calculate_next_retry: intervals[min(retry_count, len(intervals) - 1)]
\* seconds from now.  Intervals are indexed from 0 in the code.
retry_intervals == <<30, 60, 300, 900>>

CalculateNextRetry(retry_count) ==
    retry_intervals[Min(retry_count, Len(retry_intervals) - 1) + 1]

\* Python truthiness of the value _calculate_next_retry returns (a time string
\* is truthy; None, which the code never returns, is not).
NoRetry == -1

Truthy(next_retry) == next_retry # NoRetry

\* A SELECT that takes the rows left in_progress as well.
Due_OrInProgress(i) ==
    /\ message_queue[i].committed
    /\ message_queue[i].status \in {PENDING, IN_PROGRESS}
    /\ message_queue[i].next_retry = 0

\* SELECT id, retry_count ... WHERE status = 'pending' AND next_retry <=
\* datetime('now') ORDER BY created_at ASC LIMIT 10
Due(i) ==
    /\ message_queue[i].committed
    /\ message_queue[i].status = PENDING
    /\ message_queue[i].next_retry = 0

Before(i, j) ==
    \/ message_queue[i].created_at < message_queue[j].created_at
    \/ message_queue[i].created_at = message_queue[j].created_at /\ i < j

RECURSIVE Ordered(_)
Ordered(S) ==
    IF S = {} THEN <<>>
    ELSE LET first == CHOOSE i \in S : \A j \in S \ {i} : Before(i, j) IN
         <<first>> \o Ordered(S \ {first})

SelectPending ==
    LET all == Ordered({i \in RowIds : Due(i)}) IN
    [k \in 1..Min(Len(all), BATCH_LIMIT) |->
        [id |-> all[k], retry_count |-> message_queue[all[k]].retry_count]]

\* One iteration of _process_queue begins: the lock check, then the SELECT.
\* An iteration that finds nothing sleeps and changes nothing.
ProcSelect(t) ==
    /\ proc[t].pc = "loop"
    /\ FileLock_IsLocked
    /\ SelectPending # <<>>
    /\ proc' = [proc EXCEPT ![t] = [pc |-> "mark", batch |-> SelectPending]]
    /\ last' = NoCall
    /\ UNCHANGED <<main_pc, initialized, lock_handle, thread_lock, message_queue,
                   webhook_messages, wh_cache, enq, same_second, failures, token_expired>>
    /\ UNCHANGED not_queue

\* "Lost queue processor lock, attempting to reacquire"
ProcReacquire(t) ==
    /\ proc[t].pc = "loop"
    /\ ~FileLock_IsLocked
    /\ FileLock_CanAcquire
    /\ thread_lock' = TRUE
    /\ lock_handle' = TRUE
    /\ last' = NoCall
    /\ UNCHANGED <<main_pc, initialized, proc, message_queue, webhook_messages, wh_cache,
                   enq, same_second, failures, token_expired>>
    /\ UNCHANGED not_queue

\* UPDATE message_queue SET status = 'in_progress' WHERE id = ?; commit
ProcMarkInProgress(t) ==
    /\ proc[t].pc = "mark"
    /\ \E flush \in BOOLEAN :
          message_queue' = Commit([message_queue EXCEPT
                                      ![Head(proc[t].batch).id].status = IN_PROGRESS], flush)
    /\ proc' = [proc EXCEPT ![t].pc = "process"]
    /\ last' = NoCall
    /\ UNCHANGED <<main_pc, initialized, lock_handle, thread_lock, webhook_messages,
                   wh_cache, enq, same_second, failures, token_expired>>
    /\ UNCHANGED not_queue

\* generate_response(...)["status"]
ResponderStatus == {"success", "error"}

\* What WhatsAppService.send_message meets: the message is accepted, the send
\* fails, or the API rejects the token and no new one is configured.  The
\* sender reports both failures as {"success": False}.
NotifierResult == {"ok", "failed", "requires_token_refresh"}

\* A _process_message that gives up when the responder reports an error.
ProcessMessage_NeedsResponder(responder, notifier) ==
    responder = "success" /\ notifier = "ok"

\* _process_message: the responder's text is sent whatever its status; the
\* result is the notifier's success flag.
ProcessMessage(responder, notifier) == notifier = "ok"

\* The UPDATE that follows _process_message in _process_queue.
UpdateAfter(q, item, success) ==
    IF success
    THEN [q EXCEPT ![item.id].status = COMPLETED]
    ELSE LET next_retry == CalculateNextRetry(item.retry_count) IN
         IF Truthy(next_retry)
         THEN [q EXCEPT ![item.id].status = PENDING,
                        ![item.id].retry_count = @ + 1,
                        ![item.id].next_retry = next_retry]
         ELSE [q EXCEPT ![item.id].status = FAILED]

\* _process_message for the item at the head of the batch, and the UPDATE
\* and commit that follow it.  The notifier may fail only while the row's
\* retry_count is below cap.
Deliver(t, cap) ==
    /\ proc[t].pc = "process"
    /\ \E responder \in ResponderStatus, notifier \in NotifierResult, flush \in BOOLEAN :
          LET item == Head(proc[t].batch)
              success == ProcessMessage(responder, notifier) IN
          /\ token_expired => notifier # "ok"
          /\ notifier # "ok" => message_queue[item.id].retry_count < cap
          /\ message_queue' = Commit(UpdateAfter(message_queue, item, success), flush)
          /\ failures' = IF success THEN failures
                         ELSE [failures EXCEPT ![item.id] = @ + 1]
          /\ token_expired' = (token_expired \/ notifier = "requires_token_refresh")
          /\ last' = Call("deliver", item.id, success, <<responder, notifier>>)
    /\ proc' = [proc EXCEPT ![t] =
                   [pc |-> IF Len(proc[t].batch) > 1 THEN "mark" ELSE "loop",
                    batch |-> Tail(proc[t].batch)]]
    /\ UNCHANGED <<main_pc, initialized, lock_handle, thread_lock, webhook_messages,
                   wh_cache, enq, same_second>>
    /\ UNCHANGED not_queue

ProcDeliver(t) == Deliver(t, MaxRetryCount)

ProcDeliverRetry(t) == Deliver(t, MaxFailures)

\* --------------------------------------------- exceptions in the processor
\* What makes an iteration of _process_queue raise outside the for loop:
\* get_connection finds the pool exhausted, or the SELECT fails.
IterationErrors == {"pool_exhausted", "storage_error"}

\* A loop that ends with the iteration that raised.
AfterIterationError_Dead == "none"

\* except Exception: log, time.sleep(5), and the while loop goes on.
AfterIterationError == "loop"

\* An iteration raises before it has a batch: the outer except clause.
ProcIterationError(t) ==
    /\ proc[t].pc = "loop"
    /\ FileLock_IsLocked
    /\ Serving
    /\ \E what \in IterationErrors : last' = Call("error", 0, FALSE, <<what>>)
    /\ proc' = [proc EXCEPT ![t] = [pc |-> AfterIterationError, batch |-> <<>>]]
    /\ UNCHANGED <<main_pc, initialized, lock_handle, thread_lock, message_queue,
                   webhook_messages, wh_cache, enq, same_second, failures, token_expired>>
    /\ UNCHANGED not_queue

\* The thread goes on to the next item of its batch, or to the next iteration.
NextItem(t) ==
    [pc |-> IF Len(proc[t].batch) > 1 THEN "mark" ELSE "loop", batch |-> Tail(proc[t].batch)]

\* Handling one item raises before its status is updated (its metadata is
\* no JSON): the inner except clause sets the row to failed and commits.
ProcItemError(t) ==
    /\ proc[t].pc = "mark"
    /\ \E flush \in BOOLEAN :
          message_queue' = Commit([message_queue EXCEPT
                                      ![Head(proc[t].batch).id].status = FAILED], flush)
    /\ proc' = [proc EXCEPT ![t] = NextItem(t)]
    /\ last' = Call("error", Head(proc[t].batch).id, FALSE, <<"item">>)
    /\ UNCHANGED <<main_pc, initialized, lock_handle, thread_lock, webhook_messages,
                   wh_cache, enq, same_second, failures, token_expired>>
    /\ UNCHANGED not_queue

\* The UPDATE to in_progress raises: logged, and "continue".
ProcMarkError(t) ==
    /\ proc[t].pc = "mark"
    /\ proc' = [proc EXCEPT ![t] = NextItem(t)]
    /\ last' = Call("error", Head(proc[t].batch).id, FALSE, <<"storage_error">>)
    /\ UNCHANGED <<main_pc, initialized, lock_handle, thread_lock, message_queue,
                   webhook_messages, wh_cache, enq, same_second, failures, token_expired>>
    /\ UNCHANGED not_queue

\* ------------------------------------------------------------------ restart
\* The rows of q at the positions the committed rows of message_queue have:
\* what is left of a table when the connections are closed without a commit.
Durable(q) ==
    LET F[k \in 0..Len(message_queue)] ==
            IF k = 0 THEN <<>>
            ELSE IF message_queue[k].committed THEN Append(F[k - 1], q[k]) ELSE F[k - 1]
    IN F[Len(message_queue)]

\* The process stops, at any moment, and is started again: the threads and
\* what the objects held in memory are gone, the tables are as committed.
\* __init__ and _ensure_tables, run again by initialize_services, create
\* what is missing and update no row.
Restart ==
    /\ main_pc # "start"
    /\ main_pc' = "start"
    /\ initialized' = FALSE
    /\ lock_handle' = FileLock_New[1]
    /\ thread_lock' = FileLock_New[2]
    /\ proc' = [t \in Procs |-> [pc |-> "none", batch |-> <<>>]]
    /\ wh_cache' = {}
    /\ enq' = [c \in Callers |-> NoReq]
    /\ message_queue' = Durable(message_queue)
    /\ failures' = Durable(failures)
    /\ processed_messages' = {}
    /\ last' = Call("restart", 0, FALSE, <<>>)
    /\ UNCHANGED <<webhook_messages, same_second, token_expired, user_timezones, stop_event,
                   stop_pc>>
    /\ UNCHANGED <<rvars, mvars, pvars, fvars>>

\* Row i is in_progress and in the batch of no processor thread.
Orphaned(i) ==
    /\ message_queue[i].status = IN_PROGRESS
    /\ \A t \in Procs : \A k \in 1..Len(proc[t].batch) : proc[t].batch[k].id # i

\* ---------------------------------------------------------- get_queue_status
\* The columns of message_queue as _ensure_tables creates it.
MessageQueueColumns ==
    {"id", "user_id", "message", "status", "created_at", "updated_at", "retry_count",
     "last_retry", "next_retry", "metadata", "message_hash", "error_message"}

\* cursor.execute raises sqlite3.OperationalError (no such column) unless
\* the table has every column the statement names.
Executes(columns) == columns \subseteq MessageQueueColumns

\* SELECT status, COUNT(*) FROM message_queue GROUP BY status
StatusCounts ==
    [s \in {message_queue[i].status : i \in RowIds} |->
        Cardinality({i \in RowIds : message_queue[i].status = s})]

\* get_queue_status: its three statements in turn; an exception makes it
\* return {"error": ...} in place of the snapshot.
GetQueueStatus ==
    IF /\ Executes({"status"})
       /\ Executes({"created_at", "status"})
       /\ Executes({"status", "last_attempt"})
    THEN [error |-> FALSE, status_counts |-> StatusCounts,
          pending_count |-> Cardinality({i \in RowIds : message_queue[i].status = PENDING}),
          queue_processor_running |-> lock_handle]
    ELSE [error |-> TRUE]

RECURSIVE SumOver(_, _)
SumOver(f, S) ==
    IF S = {} THEN 0
    ELSE LET x == CHOOSE y \in S : TRUE IN f[x] + SumOver(f, S \ {x})

\* ------------------------------------------------------------- environment
\* The operator installs a new token (WhatsAppSender.refresh_token picks it up).
RefreshCredentials ==
    /\ token_expired
    /\ token_expired' = FALSE
    /\ last' = NoCall
    /\ UNCHANGED <<main_pc, initialized, lock_handle, thread_lock, proc, message_queue,
                   webhook_messages, wh_cache, enq, same_second, failures>>
    /\ UNCHANGED not_queue

\* The waits that are running: those of the pending rows not yet due.
Waits ==
    {message_queue[i].next_retry : i \in {j \in RowIds : message_queue[j].status = PENDING}}
    \ {0}

\* d seconds pass.
Elapse(d) ==
    /\ message_queue' = [i \in RowIds |->
                            [message_queue[i] EXCEPT !.next_retry = Max(0, @ - d)]]
    /\ same_second' = FALSE
    /\ last' = NoCall
    /\ UNCHANGED <<main_pc, initialized, lock_handle, thread_lock, proc, webhook_messages,
                   wh_cache, enq, failures, token_expired>>
    /\ UNCHANGED not_queue

\* The second in which a row was inserted ends.
TickSecond ==
    /\ same_second
    /\ Elapse(0)

\* Time passes until the next of the running waits is over.
TickToDue ==
    /\ Waits # {}
    /\ Elapse(CHOOSE d \in Waits : \A e \in Waits : d <= e)

\* ------------------------------------------------------------- RateLimiter
\* Time is relative here too: a request mark is kept as its age in seconds
\* and a block as the seconds left until it ends.  The requests of the
\* traffic arrive pace seconds apart, and a call takes no time against the
\* pace: the clock moves on when no call can take a step.  Calls in flight
\* are counted by sender and position.
Paces == {0, 4, 30}

\* The time zones the process may run in (New York, UTC, Berlin in winter).
UtcOffsets == {-18000, 0, 3600}

\* datetime.strptime(block_end, '%Y-%m-%d %H:%M:%S').timestamp(): block_end
\* is the UTC wall clock that SQLite's datetime('now') writes, and the naive
\* datetime made of it is read as a wall clock of the local time zone.
NaiveTimestamp(block_end) == block_end - utc_offset

Positions == {"clean", "is_blocked", "check", "block_user"}

NoCalls == [p \in Positions |-> 0]

RECURSIVE InFlightIn(_)
InFlightIn(S) ==
    IF S = {} THEN 0
    ELSE LET u == CHOOSE x \in S : TRUE IN
         rl_at[u]["clean"] + rl_at[u]["is_blocked"] + rl_at[u]["check"]
         + rl_at[u]["block_user"] + InFlightIn(S \ {u})

InFlight == InFlightIn(Users)

\* What a returning call hands back: (allowed, reason, unblock_time), the
\* unblock time in seconds from now (0: None).
Return(u, allowed, reason, unblock) ==
    [op |-> "check", user |-> u, allowed |-> allowed, reason |-> reason, unblock |-> unblock]

NoReturn == [op |-> "none", user |-> <<>>, allowed |-> FALSE, reason |-> "", unblock |-> 0]

\* threading.Lock.acquire by a thread, held telling whether the lock is
\* taken: the lock is not reentrant, its holder waits like anyone else.
ThreadingLock_CanAcquire(held) == ~held

\* sum(count for ts, count in marks if current_time - ts < window)
CountWithin(marks, window) ==
    Cardinality({k \in 1..Len(marks) : marks[k] < window})

\* _check_suspicious_patterns
CheckSuspiciousPatterns(marks) ==
    IF CountWithin(marks, RAPID_FIRE_WINDOW) >= RAPID_FIRE_COUNT THEN "rapid_fire"
    ELSE IF CountWithin(marks, SUSTAINED_HIGH_WINDOW) >= SUSTAINED_HIGH_COUNT
         THEN "sustained_high"
    ELSE "none"

\* The checks of check_rate_limit in their order: <<reason of the block,
\* reason returned>>, or <<"none", "none">> when the request passes.
Violation(marks) ==
    IF CountWithin(marks, WINDOW_SIZE) > MAX_REQUESTS
    THEN <<"Exceeded hourly limit", "Rate limit exceeded">>
    ELSE IF CountWithin(marks, BURST_WINDOW) > BURST_LIMIT
    THEN <<"Exceeded burst limit", "Burst limit exceeded">>
    ELSE IF CheckSuspiciousPatterns(marks) # "none"
    THEN <<"Suspicious pattern detected", "Suspicious activity detected">>
    ELSE <<"none", "none">>

\* A request of sender u arrives: check_rate_limit(u) is called.
RateArrive(u) ==
    /\ ~tick_due
    /\ InFlight < MaxInFlight
    /\ Len(arrivals[u]) < MaxArrivals
    /\ arrivals' = [arrivals EXCEPT ![u] = Append(@, 0)]
    /\ rl_at' = [rl_at EXCEPT ![u]["clean"] = @ + 1]
    /\ tick_due' = (pace > 0)
    /\ rl_last' = NoReturn
    /\ UNCHANGED <<pace, utc_offset, rl_lock, request_counts, blocked_users, user_blocks>>
    /\ UNCHANGED not_rate

Older(ages, d) == [k \in 1..Len(ages) |-> ages[k] + d]

Younger(ages, window) == SelectSeq(ages, LAMBDA a : a < window)

\* No call in flight can take a step.
Quiescent ==
    \A u \in Users :
        /\ rl_at[u]["is_blocked"] = 0
        /\ ThreadingLock_CanAcquire(rl_lock) => (rl_at[u]["clean"] = 0 /\ rl_at[u]["check"] = 0)

\* pace seconds pass before the next request.
RateTick ==
    /\ tick_due
    /\ Quiescent
    /\ tick_due' = FALSE
    /\ request_counts' = [u \in Users |-> Older(request_counts[u], pace)]
    /\ arrivals' = [u \in Users |-> Younger(Older(arrivals[u], pace), BURST_WINDOW)]
    /\ blocked_users' = [u \in Users |-> Max(0, blocked_users[u] - pace)]
    /\ user_blocks' = [u \in Users |-> Max(0, user_blocks[u] - pace)]
    /\ rl_last' = NoReturn
    /\ UNCHANGED <<pace, utc_offset, rl_lock, rl_at>>
    /\ UNCHANGED not_rate

\* _clean_old_requests, under self._lock
RateClean(u) ==
    /\ rl_at[u]["clean"] > 0
    /\ ThreadingLock_CanAcquire(rl_lock)
    /\ request_counts' = [request_counts EXCEPT ![u] = Younger(@, WINDOW_SIZE)]
    /\ rl_at' = [rl_at EXCEPT ![u]["clean"] = @ - 1, ![u]["is_blocked"] = @ + 1]
    /\ rl_last' = NoReturn
    /\ UNCHANGED <<pace, utc_offset, tick_due, rl_lock, blocked_users, user_blocks, arrivals>>
    /\ UNCHANGED not_rate

\* _is_blocked and the return that follows it: the block in memory, then
\* the block in the database.
RateIsBlocked(u) ==
    /\ rl_at[u]["is_blocked"] > 0
    /\ IF blocked_users[u] > 0
       THEN /\ rl_last' = Return(u, FALSE, "User is blocked", blocked_users[u])
            /\ rl_at' = [rl_at EXCEPT ![u]["is_blocked"] = @ - 1]
       ELSE IF user_blocks[u] > 0
       THEN /\ rl_last' = Return(u, FALSE, "User is blocked", NaiveTimestamp(user_blocks[u]))
            /\ rl_at' = [rl_at EXCEPT ![u]["is_blocked"] = @ - 1]
       ELSE /\ rl_last' = NoReturn
            /\ rl_at' = [rl_at EXCEPT ![u]["is_blocked"] = @ - 1, ![u]["check"] = @ + 1]
    /\ UNCHANGED <<pace, utc_offset, tick_due, rl_lock, request_counts, blocked_users, user_blocks,
                   arrivals>>
    /\ UNCHANGED not_rate

\* What a call handed to its caller when it raised.
Raise(u, error) ==
    [op |-> "raise", user |-> u, allowed |-> FALSE, reason |-> error, unblock |-> 0]

\* An _is_blocked that catches the error of the lookup and reports the sender
\* as not blocked: the call goes on to the limits.
OnStorageError_NotBlocked == "check"

\* Where a call is after the lookup in user_blocks has raised: nothing in
\* _is_blocked or check_rate_limit catches the error, the call is over.
OnStorageError == "raised"

\* _is_blocked when the database cannot be read: the block in memory is
\* looked at first and needs no storage; otherwise sqlite3 raises and the
\* error leaves check_rate_limit.
RateIsBlockedStorageError(u) ==
    /\ rl_at[u]["is_blocked"] > 0
    /\ IF blocked_users[u] > 0
       THEN /\ rl_last' = Return(u, FALSE, "User is blocked", blocked_users[u])
            /\ rl_at' = [rl_at EXCEPT ![u]["is_blocked"] = @ - 1]
       ELSE IF OnStorageError = "raised"
       THEN /\ rl_last' = Raise(u, "OperationalError")
            /\ rl_at' = [rl_at EXCEPT ![u]["is_blocked"] = @ - 1]
       ELSE /\ rl_last' = NoReturn
            /\ rl_at' = [rl_at EXCEPT ![u]["is_blocked"] = @ - 1, ![u][OnStorageError] = @ + 1]
    /\ UNCHANGED <<pace, utc_offset, tick_due, rl_lock, request_counts, blocked_users, user_blocks,
                   arrivals>>
    /\ UNCHANGED not_rate

\* check_rate_limit from `with self._lock:` on.  The mark is appended and
\* the limits are checked under the lock; on a violation _block_user is
\* called with the lock still held, and _block_user starts by acquiring it.
RateCheck(u) ==
    /\ rl_at[u]["check"] > 0
    /\ ThreadingLock_CanAcquire(rl_lock)
    /\ LET marks == Append(request_counts[u], 0)
           reason == Violation(marks) IN
       /\ request_counts' = [request_counts EXCEPT ![u] = marks]
       /\ IF reason[1] = "none"
          THEN /\ rl_last' = Return(u, TRUE, "none", 0)
               /\ rl_at' = [rl_at EXCEPT ![u]["check"] = @ - 1]
               /\ UNCHANGED <<rl_lock, blocked_users, user_blocks>>
          ELSE IF ThreadingLock_CanAcquire(TRUE)
          THEN \* _block_user runs to its end and check_rate_limit returns
               /\ blocked_users' = [blocked_users EXCEPT ![u] = BLOCK_DURATION]
               /\ user_blocks' = [user_blocks EXCEPT ![u] = BLOCK_DURATION]
               /\ rl_last' = Return(u, FALSE, reason[2], BLOCK_DURATION)
               /\ rl_at' = [rl_at EXCEPT ![u]["check"] = @ - 1]
               /\ UNCHANGED rl_lock
          ELSE \* _block_user waits for the lock its own thread holds
               /\ rl_lock' = TRUE
               /\ rl_last' = NoReturn
               /\ rl_at' = [rl_at EXCEPT ![u]["check"] = @ - 1, ![u]["block_user"] = @ + 1]
               /\ UNCHANGED <<blocked_users, user_blocks>>
    /\ UNCHANGED <<pace, utc_offset, tick_due, arrivals>>
    /\ UNCHANGED not_rate

\* ---------------------------------------------------------- ReminderService
\* The reminders table has the columns ensure_reminders_table of db_services
\* declares.  The clock rs_now is UTC and counts units of six hours, DayLen
\* of them to a day; a wall clock is the clock of its zone in the same units.
\* A timestamp string is the sequence of its fields, <<day, separator, unit
\* of the day>>, and strings compare as SQLite compares TEXT: field by field,
\* the separators by their code.  Rows keep their id (their index) for ever:
\* a row removed by DELETE stays in the sequence with gone = TRUE and no
\* statement sees it.  The fields how and attempts of a row are history: how
\* it came to be is_sent = 1 and how often the notifier was called for it.
DayLen == 4

MonthLen == 30 * DayLen

Owners == {"1", "2"}

ValidZones == {"America/Chicago", "UTC", "Asia/Dhaka"}

InvalidZone == "Mars/Phobos"

\* utcoffset of a zone in units of six hours (standard time).
UtcOffset(tz) ==
    CASE tz = "America/Chicago" -> -1
      [] tz = "UTC" -> 0
      [] tz = "Asia/Dhaka" -> 1

\* The wall-clock times reminders are set for: 00:00 of day 1 and the
\* evening before, and a time more than a month ahead.
NearTime == DayLen

NearTimes == {NearTime - 1, NearTime}

FarTime == MonthLen + 2 * DayLen

\* dt.strftime("%Y-%m-%d %H:%M")
Strftime(t) == <<t \div DayLen, " ", t % DayLen>>

\* dt.isoformat() of an aware UTC datetime: "YYYY-MM-DDTHH:MM:SS+00:00"
IsoFormat(t) == <<t \div DayLen, "T", t % DayLen>>

\* A time string "%Y-%m-%d %H:%M" does not match.
Unparsable == <<"soon">>

\* datetime.strptime(s, "%Y-%m-%d %H:%M") does not raise ValueError
Parses(s) == Len(s) = 3 /\ s[2] = " "

Strptime(s) == s[1] * DayLen + s[3]

\* pytz.timezone(tz) does not raise UnknownTimeZoneError
IsTimezone(tz) == tz \in ValidZones

Ord(c) == IF c = " " THEN 32 ELSE 84

\* a <= b on TEXT values
TextLE(a, b) ==
    \/ a[1] < b[1]
    \/ a[1] = b[1] /\ Ord(a[2]) < Ord(b[2])
    \/ a[1] = b[1] /\ a[2] = b[2] /\ a[3] <= b[3]

ReminderIds == 1..Len(reminders)

\* The rows a statement sees.
Rows == {id \in ReminderIds : ~reminders[id].gone}

Unsent == {id \in Rows : reminders[id].is_sent = 0}

\* tz.localize(strptime(scheduled_time)).astimezone(UTC)
ScheduledTimeUtc(r) == Strptime(r.scheduled_time) - UtcOffset(r.original_timezone_str)

\* What a step of the reminder subsystem did: op is "add", "set", "cancel",
\* "check", "wake", "timeout" or "send", with the row concerned (0: none) and
\* the result, or "step" for the steps that return nothing.
RsCall(op, id, result) == [op |-> op, id |-> id, result |-> result]

RsStep == RsCall("step", 0, "none")

NewReminder(u, s, tz) ==
    [user_id |-> u, scheduled_time |-> s, original_timezone_str |-> tz, is_sent |-> 0,
     gone |-> FALSE, how |-> "none", attempts |-> 0]

\* db_services.add_reminder(user_id, text, scheduled_time, original_timezone_str):
\* <<the table afterwards, the status returned>>
AddReminder(u, s, tz) ==
    IF Parses(s)
    THEN <<Append(reminders, NewReminder(u, s, tz)), "success">>
    ELSE <<reminders, "error">>

\* create: add_reminder called with arguments of any kind.
Create(u, s, tz) ==
    /\ Len(reminders) < MaxReminders
    /\ reminders' = AddReminder(u, s, tz)[1]
    /\ rs_last' = RsCall("add", Len(reminders) + 1, AddReminder(u, s, tz)[2])
    /\ UNCHANGED <<rs_now, user_sessions, has_pending_reminders, rs_pc, due_reminders,
                   notify_due, signalled>>
    /\ UNCHANGED not_reminder

\* ai_engine.set_reminder up to the return of add_reminder.  parsed tells
\* whether dateparser made a time of the user's words, t is that time and
\* tz what get_user_timezone returns: the zone stored for the user, which
\* set_user_timezone has validated, or the default.
SetReminder(u, parsed, t, tz) ==
    /\ Len(reminders) < MaxReminders
    /\ notify_due < MaxSetters
    /\ IF parsed
       THEN /\ reminders' = AddReminder(u, Strftime(t), tz)[1]
            /\ rs_last' = RsCall("set", Len(reminders) + 1, AddReminder(u, Strftime(t), tz)[2])
            /\ notify_due' = notify_due + 1
       ELSE /\ rs_last' = RsCall("set", 0, "error")
            /\ UNCHANGED <<reminders, notify_due>>
    /\ UNCHANGED <<rs_now, user_sessions, has_pending_reminders, rs_pc, due_reminders,
                   signalled>>
    /\ UNCHANGED not_reminder

\* reminder_notifier.notify() at the end of set_reminder -> notify_new_reminder
Notify ==
    /\ notify_due > 0
    /\ notify_due' = notify_due - 1
    /\ has_pending_reminders' = TRUE
    /\ signalled' = TRUE
    /\ rs_last' = RsStep
    /\ UNCHANGED <<rs_now, reminders, user_sessions, rs_pc, due_reminders>>
    /\ UNCHANGED not_reminder

\* _check_for_pending_reminders:
\* SELECT COUNT(*) FROM reminders WHERE is_sent = 0 AND scheduled_time <= ?
\* with now_utc.isoformat() for the parameter
CheckForPendingReminders ==
    \E id \in Unsent : TextLE(reminders[id].scheduled_time, IsoFormat(rs_now))

\* The loop of _check_reminders at its pre-check.
RsCheck ==
    /\ rs_pc = "check"
    /\ rs_pc' = IF CheckForPendingReminders THEN "select" ELSE "clear"
    /\ signalled' = FALSE
    /\ rs_last' = RsCall("check", 0, IF CheckForPendingReminders THEN "pending" ELSE "idle")
    /\ UNCHANGED <<rs_now, reminders, user_sessions, has_pending_reminders, due_reminders,
                   notify_due>>
    /\ UNCHANGED not_reminder

\* self.has_pending_reminders.clear()
RsClear ==
    /\ rs_pc = "clear"
    /\ has_pending_reminders' = FALSE
    /\ rs_pc' = "wait60"
    /\ rs_last' = RsStep
    /\ UNCHANGED <<rs_now, reminders, user_sessions, due_reminders, notify_due, signalled>>
    /\ UNCHANGED not_reminder

Waiting == rs_pc \in {"wait60", "wait30"}

\* Event.wait(timeout) expires when the flag stays clear.
WaitTimesOut_Never == FALSE

WaitTimesOut == ~has_pending_reminders

\* has_pending_reminders.wait(timeout=...) returns: at once when the flag is
\* set (it stays set), after the time-out otherwise.
RsWake ==
    /\ Waiting
    /\ has_pending_reminders
    /\ rs_pc' = "check"
    /\ rs_last' = RsCall("wake", 0, rs_pc)
    /\ UNCHANGED <<rs_now, reminders, user_sessions, has_pending_reminders, due_reminders,
                   notify_due, signalled>>
    /\ UNCHANGED not_reminder

RsTimeout ==
    /\ Waiting
    /\ WaitTimesOut
    /\ rs_pc' = "check"
    /\ rs_last' = RsCall("timeout", 0, rs_pc)
    /\ UNCHANGED <<rs_now, reminders, user_sessions, has_pending_reminders, due_reminders,
                   notify_due, signalled>>
    /\ UNCHANGED not_reminder

\* UPDATE reminders SET is_sent = 1 WHERE id = ? AND is_sent = 0 (and more
\* conditions hit): the rows of S that are unsent become sent, how tells why.
MarkSent(q, S, how) ==
    [id \in 1..Len(q) |->
        IF id \in S /\ ~q[id].gone /\ q[id].is_sent = 0
        THEN [q[id] EXCEPT !.is_sent = 1, !.how = how]
        ELSE q[id]]

\* Ids of S in rising order.
RECURSIVE Ascending(_)
Ascending(S) ==
    IF S = {} THEN <<>>
    ELSE LET id == CHOOSE x \in S : \A y \in S : x <= y IN <<id>> \o Ascending(S \ {id})

\* get_pending_reminders: the unsent rows whose zone pytz does not know are
\* marked sent on the spot, those whose time does not parse are skipped, the
\* others are due when their UTC instant is not after now.
Broken == {id \in Unsent : ~IsTimezone(reminders[id].original_timezone_str)}

\* get_pending_reminders deriving the instant from the zone the owner has
\* set now, not from the zone stored with the reminder.
DueReminders_ByPreference ==
    {id \in Unsent \ Broken :
        /\ Parses(reminders[id].scheduled_time)
        /\ Strptime(reminders[id].scheduled_time)
              - UtcOffset(user_timezones[reminders[id].user_id]) <= rs_now}

\* get_pending_reminders: the reminders it returns
DueReminders ==
    {id \in Unsent \ Broken :
        /\ Parses(reminders[id].scheduled_time)
        /\ ScheduledTimeUtc(reminders[id]) <= rs_now}

RsSelect ==
    /\ rs_pc = "select"
    /\ reminders' = MarkSent(reminders, Broken, "unknown_zone")
    /\ due_reminders' = Ascending(DueReminders)
    /\ rs_pc' = IF DueReminders = {} THEN "wait30" ELSE "process"
    /\ rs_last' = RsStep
    /\ UNCHANGED <<rs_now, user_sessions, has_pending_reminders, notify_due, signalled>>
    /\ UNCHANGED not_reminder

\* What send_whatsapp_message does: returns a success, returns a failure,
\* or raises.
SendOutcomes == {"success", "failure", "exception"}

\* The finally clause marks the reminder whatever the outcome.
MarksAfter_SuccessOnly(outcome) == outcome = "success"

MarksAfter(outcome) == outcome \in SendOutcomes

\* One pass of the for loop: the reminder at the head of the batch is sent
\* and mark_reminder_sent is called for it.
RsProcess(outcome) ==
    /\ rs_pc = "process"
    /\ LET id == Head(due_reminders)
           sent == [reminders EXCEPT ![id].attempts = @ + 1] IN
       /\ reminders' = IF MarksAfter(outcome) THEN MarkSent(sent, {id}, "scheduler") ELSE sent
       /\ rs_last' = RsCall("send", id, outcome)
    /\ due_reminders' = Tail(due_reminders)
    /\ rs_pc' = IF Tail(due_reminders) = <<>> THEN "wait30" ELSE "process"
    /\ UNCHANGED <<rs_now, user_sessions, has_pending_reminders, notify_due, signalled>>
    /\ UNCHANGED not_reminder

\* A step of the _check_reminders thread.
RsLoop ==
    \/ RsCheck
    \/ RsClear
    \/ RsWake
    \/ RsTimeout
    \/ RsSelect
    \/ \E outcome \in SendOutcomes : RsProcess(outcome)

\* The same thread when no one notifies: every wait runs to its time-out.
RsLoopOnTimeouts ==
    \/ RsCheck
    \/ RsClear
    \/ RsTimeout
    \/ RsSelect
    \/ \E outcome \in SendOutcomes : RsProcess(outcome)

\* set_user_timezone(user_id, timezone) with a name pytz knows
SetUserTimezone(u, tz) ==
    /\ IsTimezone(tz)
    /\ user_timezones[u] # tz
    /\ user_timezones' = [user_timezones EXCEPT ![u] = tz]
    /\ UNCHANGED <<processed_messages, stop_event, stop_pc>>
    /\ UNCHANGED <<qvars, rvars, mvars, pvars, fvars>>

\* get_user_timezone(user_id) of a user whose row is less than 30 days old
GetUserTimezone(u) == user_timezones[u]

\* set_reminder for a user: the local time is stored with the zone
\* get_user_timezone returns at that moment.
SetReminderInOwnZone(u, t) == SetReminder(u, TRUE, t, GetUserTimezone(u))

\* ReminderService.stop, its first statement: self.stop_event.set()
StopSignal ==
    /\ stop_pc = "idle"
    /\ rs_pc # "stopped"
    /\ stop_event' = TRUE
    /\ stop_pc' = "signalled"
    /\ UNCHANGED <<processed_messages, user_timezones>>
    /\ UNCHANGED <<qvars, rvars, mvars, pvars, fvars>>

\* ReminderService.stop goes on: self.has_pending_reminders.set(), to wake
\* the thread, and a join that gives up after two seconds.
StopWake ==
    /\ stop_pc = "signalled"
    /\ has_pending_reminders' = TRUE
    /\ stop_pc' = "done"
    /\ rs_last' = RsCall("stop", 0, "set")
    /\ UNCHANGED <<rs_now, reminders, user_sessions, rs_pc, due_reminders, notify_due,
                   signalled>>
    /\ UNCHANGED <<processed_messages, user_timezones, stop_event>>
    /\ UNCHANGED <<qvars, rvars, pvars, fvars>>

\* while not self.stop_event.is_set(): the loop ends, and the thread with it
RsExit ==
    /\ rs_pc = "check"
    /\ stop_event
    /\ rs_pc' = "stopped"
    /\ rs_last' = RsCall("exit", 0, "stopped")
    /\ UNCHANGED <<rs_now, reminders, user_sessions, has_pending_reminders, due_reminders,
                   notify_due, signalled>>
    /\ UNCHANGED not_reminder

\* if self.stop_event.is_set(): break, in the for loop; the wait of thirty
\* seconds follows.
RsBreak ==
    /\ rs_pc = "process"
    /\ stop_event
    /\ rs_pc' = "wait30"
    /\ due_reminders' = <<>>
    /\ rs_last' = RsStep
    /\ UNCHANGED <<rs_now, reminders, user_sessions, has_pending_reminders, notify_due,
                   signalled>>
    /\ UNCHANGED not_reminder

\* A step of the _check_reminders thread, the tests of stop_event included.
RsLoopUntilStopped ==
    \/ ~stop_event /\ RsCheck
    \/ RsExit
    \/ RsClear
    \/ RsWake
    \/ RsTimeout
    \/ RsSelect
    \/ ~stop_event /\ \E outcome \in SendOutcomes : RsProcess(outcome)
    \/ RsBreak

\* The WHERE clause of get_user_reminders.
Listed_AnyState(r, u) == r.user_id = u

Listed(r, u) == r.user_id = u /\ r.is_sent = 0

\* get_user_reminders(user_id): the ids listed (ORDER BY scheduled_time orders
\* what is shown, not what is in it).
GetUserReminders(u) == {id \in Rows : Listed(reminders[id], u)}

\* cancel_reminder(user_id, reminder_id)
CancelReminder(u, id) ==
    /\ LET hit == {i \in Unsent : i = id /\ reminders[i].user_id = u} IN
       /\ reminders' = MarkSent(reminders, hit, "cancel")
       /\ rs_last' = RsCall("cancel", id, IF hit # {} THEN "success" ELSE "not_found")
    /\ UNCHANGED <<rs_now, user_sessions, has_pending_reminders, rs_pc, due_reminders,
                   notify_due, signalled>>
    /\ UNCHANGED not_reminder

\* cancel_all_reminders(user_id)
CancelAllReminders(u) ==
    /\ LET hit == {i \in Unsent : reminders[i].user_id = u} IN
       /\ reminders' = MarkSent(reminders, hit, "cancel")
       /\ rs_last' = RsCall("cancel", 0, IF hit # {} THEN "success" ELSE "not_found")
    /\ UNCHANGED <<rs_now, user_sessions, has_pending_reminders, rs_pc, due_reminders,
                   notify_due, signalled>>
    /\ UNCHANGED not_reminder

\* save_session / update_session: a message of the user is handled.
SaveSession(u) ==
    /\ user_sessions[u] # "fresh"
    /\ user_sessions' = [user_sessions EXCEPT ![u] = "fresh"]
    /\ rs_last' = RsStep
    /\ UNCHANGED <<rs_now, reminders, has_pending_reminders, rs_pc, due_reminders, notify_due,
                   signalled>>
    /\ UNCHANGED not_reminder

\* clear_old_sessions(days_old=30), called by cleanup_old_data in app.py:
\* DELETE FROM reminders WHERE user_id IN (the users whose session is old)
ClearOldSessions ==
    /\ LET old == {u \in Owners : user_sessions[u] = "old"} IN
       /\ reminders' = [id \in ReminderIds |->
              IF reminders[id].user_id \in old
              THEN [reminders[id] EXCEPT !.gone = TRUE] ELSE reminders[id]]
       /\ user_sessions' = [u \in Owners |-> IF u \in old THEN "none" ELSE user_sessions[u]]
       /\ rs_last' = RsStep
    /\ UNCHANGED <<rs_now, has_pending_reminders, rs_pc, due_reminders, notify_due, signalled>>
    /\ UNCHANGED not_reminder

\* Six hours pass.
RsTick ==
    /\ rs_now % MonthLen < MaxNow
    /\ rs_now' = rs_now + 1
    /\ rs_last' = RsStep
    /\ UNCHANGED <<reminders, user_sessions, has_pending_reminders, rs_pc, due_reminders,
                   notify_due, signalled>>
    /\ UNCHANGED not_reminder

\* More than thirty days pass in which no user writes: every session is older than
\* the cleanup's cutoff.
SessionsAge ==
    /\ rs_now < MonthLen
    /\ rs_now' = rs_now + MonthLen
    /\ user_sessions' = [u \in Owners |-> IF user_sessions[u] = "fresh" THEN "old"
                                          ELSE user_sessions[u]]
    /\ rs_last' = RsStep
    /\ UNCHANGED <<reminders, has_pending_reminders, rs_pc, due_reminders, notify_due,
                   signalled>>
    /\ UNCHANGED not_reminder

\* ----------------------------------------------------------- ConnectionPool
\* db_services.ConnectionPool.  Connections are numbered as they are made;
\* every method body runs under cls._lock and is one step.  handles tells
\* which connections a thread has got and not yet returned.
max_connections == 5

PoolThreads == 1..MaxPoolThreads

PoolCall(op, t, result) == [op |-> op, thread |-> t, result |-> result]

\* initialize: two connections to start with
Initialize ==
    /\ ~pool_initialized
    /\ pool' = <<1, 2>>
    /\ connections' = 2
    /\ pool_initialized' = TRUE
    /\ pool_last' = PoolCall("initialize", 0, "ok")
    /\ UNCHANGED <<active_connections, handles>>
    /\ UNCHANGED not_pool

\* The test made before a connection is created.
HasRoom_NoCap == TRUE

HasRoom == Cardinality(active_connections) < max_connections

Hand(t, conn) ==
    /\ active_connections' = active_connections \cup {conn}
    /\ handles' = [handles EXCEPT ![t] = @ \cup {conn}]
    /\ pool_last' = PoolCall("get", t, "ok")

\* get_connection, after initialize
GetConnection(t) ==
    /\ pool_initialized
    /\ Cardinality(handles[t]) < MaxNesting
    /\ IF Len(pool) > 0
       THEN /\ Hand(t, pool[Len(pool)])
            /\ pool' = SubSeq(pool, 1, Len(pool) - 1)
            /\ UNCHANGED connections
       ELSE IF HasRoom
       THEN /\ Hand(t, connections + 1)
            /\ connections' = connections + 1
            /\ UNCHANGED pool
       ELSE /\ pool_last' = PoolCall("get", t, "exhausted")
            /\ UNCHANGED <<pool, active_connections, handles, connections>>
    /\ UNCHANGED pool_initialized
    /\ UNCHANGED not_pool

\* return_connection, called by ConnectionContextManager.__exit__
ReturnConnection(t, conn) ==
    /\ conn \in handles[t]
    /\ handles' = [handles EXCEPT ![t] = @ \ {conn}]
    /\ IF conn \in active_connections
       THEN /\ active_connections' = active_connections \ {conn}
            /\ pool' = IF Len(pool) < max_connections THEN Append(pool, conn) ELSE pool
       ELSE UNCHANGED <<active_connections, pool>>
    /\ pool_last' = PoolCall("return", t, "ok")
    /\ UNCHANGED <<pool_initialized, connections>>
    /\ UNCHANGED not_pool

\* A return_connection without the test 'if conn in cls._active_connections'.
AfterReturn_NoTest(conn) ==
    <<active_connections \ {conn},
      IF Len(pool) < max_connections THEN Append(pool, conn) ELSE pool>>

\* The body of return_connection: <<_active_connections, _pool>> afterwards.
AfterReturn(conn) ==
    IF conn \in active_connections
    THEN <<active_connections \ {conn},
           IF Len(pool) < max_connections THEN Append(pool, conn) ELSE pool>>
    ELSE <<active_connections, pool>>

\* return_connection called once more by a thread for a connection it has
\* handed back, while no one has taken the connection since.
ReturnAgain(t, conn) ==
    /\ conn \in 1..connections
    /\ conn \notin handles[t]
    /\ conn \notin active_connections
    /\ active_connections' = AfterReturn(conn)[1]
    /\ pool' = AfterReturn(conn)[2]
    /\ pool_last' = PoolCall("return_again", t, "ok")
    /\ UNCHANGED <<pool_initialized, handles, connections>>
    /\ UNCHANGED not_pool

\* ------------------------------------------------------------ specification
\* ReminderService.__init__, on an empty reminders table
ReminderService_New ==
    /\ rs_now = 0
    /\ reminders = <<>>
    /\ user_sessions = [u \in Owners |-> "none"]
    /\ has_pending_reminders = FALSE
    /\ rs_pc = "check"
    /\ due_reminders = <<>>
    /\ notify_due = 0
    /\ signalled = FALSE
    /\ rs_last = RsStep

\* class ConnectionPool as the module is loaded
ConnectionPool_New ==
    /\ pool_initialized = FALSE
    /\ pool = <<>>
    /\ active_connections = {}
    /\ handles = [t \in PoolThreads |-> {}]
    /\ connections = 0
    /\ pool_last = PoolCall("none", 0, "none")

\* ------------------------------------------------- FileLock, several objects
\* Every FileLock(lock_file) stores the path and makes a threading.Lock of
\* its own; acquire and release use that lock only, and nothing is read from
\* or written to the path.  file_locks holds the objects made for one path.
LockThreads == 1..MaxLockThreads

LockIds == 1..Len(file_locks)

FlCall(op, t, o, result) == [op |-> op, thread |-> t, obj |-> o, result |-> result]

\* FileLock(lock_file)
FileLock_Init ==
    /\ Len(file_locks) < MaxLocks
    /\ file_locks' = Append(file_locks, FileLock_New)
    /\ fl_hist' = Append(fl_hist, "new")
    /\ fl_last' = FlCall("init", 0, Len(file_locks) + 1, "ok")
    /\ UNCHANGED fl_pc
    /\ UNCHANGED not_filelock

\* self._thread_lock.acquire(blocking) would succeed
CanAcquire(o) == ~file_locks[o][2]

\* FileLock.acquire(blocking): takes the object's thread lock and sets
\* lock_handle; a blocking call waits while the thread lock is taken, a
\* non-blocking one returns False.  unheld: the latest release() of the
\* object found it not held.
FileLock_Acquire(t, o, blocking) ==
    /\ fl_pc[t] = 0
    /\ o \in LockIds
    /\ blocking => CanAcquire(o)
    /\ IF CanAcquire(o)
       THEN /\ file_locks' = [file_locks EXCEPT ![o] = <<TRUE, TRUE>>]
            /\ fl_hist' = [fl_hist EXCEPT ![o] = "acquired"]
            /\ fl_last' = [FlCall("acquire", t, o, "True") EXCEPT !.result =
                               IF fl_hist[o] = "unheld" THEN "True after unheld" ELSE "True"]
       ELSE /\ fl_last' = FlCall("acquire", t, o, "False")
            /\ UNCHANGED <<file_locks, fl_hist>>
    /\ UNCHANGED fl_pc
    /\ UNCHANGED not_filelock

\* release() without the test of lock_handle and without the except clause.
ReleaseUnheld_Unguarded(o) ==
    <<[file_locks EXCEPT ![o] = <<FALSE, FALSE>>],
      IF file_locks[o][2] THEN "ok" ELSE "RuntimeError">>

\* release() when lock_handle is None: the body of the if is skipped.
\* <<the objects afterwards, how the call ends>>
ReleaseUnheld(o) == <<file_locks, "ok">>

\* FileLock.release: when lock_handle is set, the thread lock is released
\* first (a RuntimeError is swallowed) and lock_handle is reset in a later
\* step; otherwise nothing is done.
FileLock_Release(t, o) ==
    /\ fl_pc[t] = 0
    /\ o \in LockIds
    /\ IF file_locks[o][1]
       THEN /\ file_locks' = [file_locks EXCEPT ![o] = <<TRUE, FALSE>>]
            /\ fl_pc' = [fl_pc EXCEPT ![t] = o]
            /\ fl_hist' = [fl_hist EXCEPT ![o] = "released"]
            /\ fl_last' = FlCall("release", t, o, "releasing")
       ELSE /\ file_locks' = ReleaseUnheld(o)[1]
            /\ fl_hist' = [fl_hist EXCEPT ![o] = "unheld"]
            /\ fl_last' = FlCall("release", t, o, ReleaseUnheld(o)[2])
            /\ UNCHANGED fl_pc
    /\ UNCHANGED not_filelock

\* release(), its last statement: self.lock_handle = None
FileLock_ReleaseEnd(t) ==
    /\ fl_pc[t] # 0
    /\ file_locks' = [file_locks EXCEPT ![fl_pc[t]] = <<FALSE, file_locks[fl_pc[t]][2]>>]
    /\ fl_pc' = [fl_pc EXCEPT ![t] = 0]
    /\ fl_last' = FlCall("release", t, fl_pc[t], "ok")
    /\ UNCHANGED fl_hist
    /\ UNCHANGED not_filelock

\* FileLock.is_locked
IsLocked(t, o) ==
    /\ fl_pc[t] = 0
    /\ o \in LockIds
    /\ fl_last' = FlCall("is_locked", t, o, IF file_locks[o][1] THEN "True" ELSE "False")
    /\ UNCHANGED <<file_locks, fl_pc, fl_hist>>
    /\ UNCHANGED not_filelock

\* No FileLock made yet besides the queue's own.
FileLocks_New ==
    /\ file_locks = <<>>
    /\ fl_pc = [t \in LockThreads |-> 0]
    /\ fl_hist = <<>>
    /\ fl_last = FlCall("none", 0, 0, "none")

\* RateLimiter.__init__
RateLimiter_New ==
    /\ tick_due = FALSE
    /\ rl_lock = FALSE
    /\ rl_at = [u \in Users |-> NoCalls]
    /\ request_counts = [u \in Users |-> <<>>]
    /\ blocked_users = [u \in Users |-> 0]
    /\ arrivals = [u \in Users |-> <<>>]
    /\ rl_last = NoReturn

MessageQueue_New ==
    /\ main_pc = "start"
    /\ initialized = FALSE
    /\ lock_handle = FALSE
    /\ thread_lock = FALSE
    /\ proc = [t \in Procs |-> [pc |-> "none", batch |-> <<>>]]
    /\ message_queue = <<>>
    /\ webhook_messages = {}
    /\ wh_cache = {}
    /\ enq = [c \in Callers |-> NoReq]
    /\ same_second = FALSE
    /\ failures = <<>>
    /\ token_expired = FALSE
    /\ last = NoCall

Init ==
    /\ MessageQueue_New
    /\ RateLimiter_New
    /\ ReminderService_New
    /\ ConnectionPool_New
    /\ FileLocks_New
    /\ processed_messages = {}
    /\ user_timezones = [u \in Owners |-> "UTC"]
    /\ stop_event = FALSE
    /\ stop_pc = "idle"
    /\ pace = 0
    /\ utc_offset = 0
    /\ user_blocks = [u \in Users |-> 0]

\* initialize_services, run once when app.py is imported
InitializeServices ==
    \/ Construct
    \/ ConstructStart
    \/ ForceReinit
    \/ Reinit
    \/ ReinitStart

\* The application as app.py drives it: no caller passes a webhook_message_id.
Next ==
    \/ InitializeServices
    \/ \E c \in Callers : EnqueuePlain(c)
    \/ \E id \in 1..MaxRows : CancelMessage(id)
    \/ \E t \in Procs : ProcSelect(t)
    \/ \E t \in Procs : ProcReacquire(t)
    \/ \E t \in Procs : ProcMarkInProgress(t)
    \/ \E t \in Procs : ProcDeliver(t)
    \/ RefreshCredentials
    \/ TickSecond
    \/ TickToDue

Spec == Init /\ [][Next]_vars

\* enqueue_message in all its forms, called concurrently.
NextEnqueue ==
    \/ InitializeServices
    \/ \E c \in Callers : EnqueuePlain(c)
    \/ \E c \in Callers : EnqueueCheck(c)
    \/ \E c \in Callers : EnqueueInsert(c)
    \/ \E id \in 1..MaxRows : CancelMessage(id)
    \/ TickSecond

SpecEnqueue == Init /\ [][NextEnqueue]_vars

\* The first message enqueued.
EnqueueFirst(c) ==
    /\ message_queue = <<>>
    /\ EnqueuePlain(c)

\* One message followed by the processors through the whole retry schedule.
NextRetry ==
    \/ InitializeServices
    \/ \E c \in Callers : EnqueueFirst(c)
    \/ \E t \in Procs : ProcSelect(t)
    \/ \E t \in Procs : ProcReacquire(t)
    \/ \E t \in Procs : ProcMarkInProgress(t)
    \/ \E t \in Procs : ProcDeliverRetry(t)
    \/ TickToDue

SpecRetry == Init /\ [][NextRetry]_vars

\* The rate limiter under traffic of a steady pace, on a database that may
\* hold a block for a sender.
InitRate ==
    /\ MessageQueue_New
    /\ RateLimiter_New
    /\ ReminderService_New
    /\ ConnectionPool_New
    /\ FileLocks_New
    /\ processed_messages = {}
    /\ user_timezones = [u \in Owners |-> "UTC"]
    /\ stop_event = FALSE
    /\ stop_pc = "idle"
    /\ pace \in Paces
    /\ utc_offset \in UtcOffsets
    /\ user_blocks \in [Users -> {0, BLOCK_DURATION}]

NextRate ==
    \/ \E u \in Users : RateArrive(u)
    \/ RateTick
    \/ \E u \in Users : RateClean(u)
    \/ \E u \in Users : RateIsBlocked(u)
    \/ \E u \in Users : RateCheck(u)

\* A call that can take its next step takes it.
RateFairness ==
    \A u \in Users :
        /\ WF_vars(RateClean(u))
        /\ WF_vars(RateIsBlocked(u))
        /\ WF_vars(RateCheck(u))

SpecRate == InitRate /\ [][NextRate]_vars /\ RateFairness

\* The rate limiter on a database that cannot always be read, its requests
\* coming one after the other within the same second.
InitRateFaulty ==
    /\ InitRate
    /\ pace = 0
    /\ utc_offset = 0

RateArriveAlone(u) ==
    /\ InFlight = 0
    /\ RateArrive(u)

NextRateFaulty ==
    \/ \E u \in Users : RateArriveAlone(u)
    \/ \E u \in Users : RateClean(u)
    \/ \E u \in Users : RateIsBlocked(u)
    \/ \E u \in Users : RateIsBlockedStorageError(u)
    \/ \E u \in Users : RateCheck(u)

SpecRateFaulty == InitRateFaulty /\ [][NextRateFaulty]_vars

\* The rate limiter started on a database that holds a block of an hour for
\* the sender: the block ends while the traffic goes on.
InitExpiring ==
    /\ InitRate
    /\ pace > 0
    /\ user_blocks = [u \in Users |-> BLOCK_DURATION]

SpecExpiring == InitExpiring /\ [][NextRate]_vars /\ RateFairness

\* Two senders on one RateLimiter: the sender of Users, whose results are
\* watched and who stays far below every threshold, and another sender
\* who may go as far as a threshold.  _request_counts and _blocked_users are
\* dictionaries keyed by sender and user_blocks has one row for a sender;
\* self._lock is the one lock of the object.
OtherSender == <<"2">>

Senders == Users \cup {OtherSender}

Quota(u) == IF u \in Users THEN MaxOwnRequests ELSE RAPID_FIRE_COUNT

InitSenders ==
    /\ MessageQueue_New
    /\ ReminderService_New
    /\ ConnectionPool_New
    /\ FileLocks_New
    /\ processed_messages = {}
    /\ user_timezones = [u \in Owners |-> "UTC"]
    /\ stop_event = FALSE
    /\ stop_pc = "idle"
    /\ pace = 0
    /\ utc_offset = 0
    /\ tick_due = FALSE
    /\ rl_lock = FALSE
    /\ rl_at = [u \in Senders |-> NoCalls]
    /\ request_counts = [u \in Senders |-> <<>>]
    /\ blocked_users = [u \in Senders |-> 0]
    /\ arrivals = [u \in Senders |-> <<>>]
    /\ rl_last = NoReturn
    /\ user_blocks \in [Senders -> {0, BLOCK_DURATION}]

SenderArrive(u) ==
    /\ InFlightIn(Senders) < MaxSenderCalls
    /\ Len(arrivals[u]) < Quota(u)
    /\ RateArrive(u)

NextSenders ==
    \/ \E u \in Senders : SenderArrive(u)
    \/ \E u \in Senders : RateClean(u)
    \/ \E u \in Senders : RateIsBlocked(u)
    \/ \E u \in Senders : RateCheck(u)

\* A call that can take its next step takes it.
SendersFairness ==
    \A u \in Senders :
        /\ WF_vars(RateClean(u))
        /\ WF_vars(RateIsBlocked(u))
        /\ WF_vars(RateCheck(u))

SpecSenders == InitSenders /\ [][NextSenders]_vars /\ SendersFairness

\* The reminders as the assistant's tools drive them, for users who live
\* by UTC.
NextReminder ==
    \/ \E u \in Owners, parsed \in BOOLEAN, t \in NearTimes : SetReminder(u, parsed, t, "UTC")
    \/ Notify
    \/ RsLoop
    \/ \E u \in Owners, id \in 1..MaxReminders : CancelReminder(u, id)
    \/ \E u \in Owners : CancelAllReminders(u)
    \/ RsTick

SpecReminder == Init /\ [][NextReminder]_vars

\* notify() called while the scheduler's thread is in one of its waits.
NotifyWaiting ==
    /\ Waiting
    /\ Notify

\* The reminders and the scheduler when every wake signal finds the loop
\* waiting.
NextWakes ==
    \/ \E u \in Owners, parsed \in BOOLEAN, t \in NearTimes : SetReminder(u, parsed, t, "UTC")
    \/ NotifyWaiting
    \/ RsLoop
    \/ \E u \in Owners, id \in 1..MaxReminders : CancelReminder(u, id)
    \/ \E u \in Owners : CancelAllReminders(u)
    \/ RsTick

SpecWakes == Init /\ [][NextWakes]_vars

\* Every operation that writes the reminders table, the daily cleanup of
\* app.py among them; the scheduler runs on its time-outs.
NextCleanup ==
    \/ \E u \in Owners : SaveSession(u)
    \/ \E u \in Owners, t \in {NearTime, FarTime} : Create(u, Strftime(t), "UTC")
    \/ RsLoopOnTimeouts
    \/ \E u \in Owners, id \in 1..MaxReminders : CancelReminder(u, id)
    \/ \E u \in Owners : CancelAllReminders(u)
    \/ ClearOldSessions
    \/ RsTick
    \/ SessionsAge

SpecCleanup == Init /\ [][NextCleanup]_vars

\* The scheduler alone: reminders are set, time passes, and the thread of
\* _check_reminders takes its next step whenever it has one.
NextScheduler ==
    \/ \E u \in Owners, t \in NearTimes, tz \in ValidZones : SetReminder(u, TRUE, t, tz)
    \/ Notify
    \/ RsLoop
    \/ RsTick

SchedulerFairness == WF_vars(RsLoop) /\ WF_vars(RsTick)

SpecScheduler == Init /\ [][NextScheduler]_vars /\ SchedulerFairness

\* One message and processors whose iterations may raise.  A thread that can
\* take its next step takes it, and storage does not fail for ever: an
\* UPDATE tried again and again succeeds in the end.
NextFaulty ==
    \/ InitializeServices
    \/ \E c \in Callers : EnqueueFirst(c)
    \/ \E t \in Procs : ProcSelect(t)
    \/ \E t \in Procs : ProcReacquire(t)
    \/ \E t \in Procs : ProcMarkInProgress(t)
    \/ \E t \in Procs : ProcDeliver(t)
    \/ \E t \in Procs : ProcIterationError(t)
    \/ \E t \in Procs : ProcItemError(t)
    \/ \E t \in Procs : ProcMarkError(t)
    \/ TickToDue

FaultyFairness ==
    \A t \in Procs :
        /\ WF_vars(ProcSelect(t))
        /\ SF_vars(ProcMarkInProgress(t))
        /\ WF_vars(ProcDeliver(t))

SpecFaulty == Init /\ [][NextFaulty]_vars /\ FaultyFairness

\* One message, cancelled at any moment while the processors are at work.
NextCancel ==
    \/ InitializeServices
    \/ \E c \in Callers : EnqueueFirst(c)
    \/ \E id \in 1..MaxRows : CancelMessage(id)
    \/ \E t \in Procs : ProcSelect(t)
    \/ \E t \in Procs : ProcReacquire(t)
    \/ \E t \in Procs : ProcMarkInProgress(t)
    \/ \E t \in Procs : ProcDeliver(t)
    \/ TickToDue

SpecCancel == Init /\ [][NextCancel]_vars

\* The first message that reaches an empty queue through the webhook.
WebhookFirst(c) ==
    /\ message_queue = <<>>
    /\ Webhook(c)

\* An inbound message of a sender who is authorized and messages of one who
\* is not, and the processors at work on the queue.
NextIntake ==
    \/ InitializeServices
    \/ \E c \in Callers : WebhookFirst(c)
    \/ \E c \in Callers : WebhookUnauthorized(c)
    \/ \E t \in Procs : ProcSelect(t)
    \/ \E t \in Procs : ProcReacquire(t)
    \/ \E t \in Procs : ProcMarkInProgress(t)
    \/ \E t \in Procs : ProcDeliver(t)
    \/ TickToDue

SpecIntake == Init /\ [][NextIntake]_vars

\* The application stopped and started again while it delivers.
NextRestart ==
    \/ InitializeServices
    \/ \E c \in Callers : EnqueuePlain(c)
    \/ \E t \in Procs : ProcSelect(t)
    \/ \E t \in Procs : ProcReacquire(t)
    \/ \E t \in Procs : ProcMarkInProgress(t)
    \/ \E t \in Procs : ProcDeliver(t)
    \/ TickToDue
    \/ Restart

SpecRestart == Init /\ [][NextRestart]_vars

\* The scheduler and users who change their time zone between reminders.
NextTimezone ==
    \/ \E u \in Owners, tz \in ValidZones : SetUserTimezone(u, tz)
    \/ \E u \in Owners : SetReminderInOwnZone(u, NearTime)
    \/ Notify
    \/ RsLoop
    \/ RsTick

SpecTimezone == Init /\ [][NextTimezone]_vars

\* The scheduler at work, and stop() called at any moment.
NextStop ==
    \/ \E u \in Owners, t \in NearTimes : SetReminder(u, TRUE, t, "UTC")
    \/ Notify
    \/ RsLoopUntilStopped
    \/ RsTick
    \/ StopSignal
    \/ StopWake

SpecStop == Init /\ [][NextStop]_vars

\* add_reminder under every kind of argument.
NextCreate ==
    \/ \E u \in Owners, s \in {Strftime(t) : t \in NearTimes} \cup {Unparsable},
          tz \in ValidZones \cup {InvalidZone} : Create(u, s, tz)
    \/ RsLoopOnTimeouts
    \/ RsTick

SpecCreate == Init /\ [][NextCreate]_vars

\* Threads taking and returning connections.
NextPool ==
    \/ Initialize
    \/ \E t \in PoolThreads : GetConnection(t)
    \/ \E t \in PoolThreads, conn \in 1..(MaxPoolThreads * MaxNesting) : ReturnConnection(t, conn)

SpecPool == Init /\ [][NextPool]_vars

\* Threads entering and leaving 'with ConnectionPool.get_connection()'
\* scopes, and handing a connection back a second time.
NextPoolScopes ==
    \/ Initialize
    \/ \E t \in PoolThreads : GetConnection(t)
    \/ \E t \in PoolThreads, conn \in 1..(MaxPoolThreads * MaxNesting) : ReturnConnection(t, conn)
    \/ \E t \in PoolThreads, conn \in 1..(MaxPoolThreads * MaxNesting) : ReturnAgain(t, conn)

SpecPoolScopes == Init /\ [][NextPoolScopes]_vars

\* enqueue_message called with a webhook_message_id by concurrent requests,
\* and the processors, whose commits go through the same pool.
NextRejected ==
    \/ InitializeServices
    \/ \E c \in Callers : EnqueueCheck(c)
    \/ \E c \in Callers : EnqueueInsert(c)
    \/ \E t \in Procs : ProcSelect(t)
    \/ \E t \in Procs : ProcReacquire(t)
    \/ \E t \in Procs : ProcMarkInProgress(t)
    \/ \E t \in Procs : ProcDeliver(t)
    \/ TickToDue

SpecRejected == Init /\ [][NextRejected]_vars

\* Inbound messages arriving at the webhook, and enqueue_message called with
\* a webhook_message_id, concurrently.
NextWebhook ==
    \/ InitializeServices
    \/ \E c \in Callers : Webhook(c)
    \/ \E c \in Callers : EnqueueCheckIn(c, MessageIds)
    \/ \E c \in Callers : EnqueueInsert(c)
    \/ TickSecond

SpecWebhook == Init /\ [][NextWebhook]_vars

\* FileLock objects for the path of the processor's lock, used by threads.
NextFileLock ==
    \/ FileLock_Init
    \/ \E t \in LockThreads, o \in 1..MaxLocks, blocking \in BOOLEAN : FileLock_Acquire(t, o, blocking)
    \/ \E t \in LockThreads, o \in 1..MaxLocks : FileLock_Release(t, o)
    \/ \E t \in LockThreads : FileLock_ReleaseEnd(t)
    \/ \E t \in LockThreads, o \in 1..MaxLocks : IsLocked(t, o)

SpecFileLock == Init /\ [][NextFileLock]_vars

\* ------------------------------------------------------------------ claims
Hashes(q) == {q[i].message_hash : i \in 1..Len(q)}

\* C1: enqueue_message with a content hash that a row of the table already
\* has returns false and leaves the table as it was; a call that returns
\* true has added exactly one row, with a hash no row had; and no two rows
\* of the table ever have the same hash.
C1_UniqueContentHash ==
    [][ /\ (last'.op = "enqueue" /\ last'.arg \in Hashes(message_queue))
            => (~last'.val /\ message_queue' = message_queue)
        /\ (last'.op = "enqueue" /\ last'.val)
            => /\ Len(message_queue') = Len(message_queue) + 1
               /\ \A i \in RowIds :
                     message_queue'[i].message_hash = message_queue[i].message_hash
               /\ message_queue'[Len(message_queue')].message_hash = last'.arg
        /\ \A i, j \in 1..Len(message_queue') :
              message_queue'[i].message_hash = message_queue'[j].message_hash => i = j
      ]_vars

\* A call refused by the hash alone: no webhook id has been recorded.
C1_Witness ==
    /\ last.op = "enqueue"
    /\ ~last.val
    /\ last.arg \in Hashes(message_queue)
    /\ webhook_messages = {}

\* C2: at most one queue-processor loop runs, whatever constructions and
\* re-initialisations of the queue object have happened.
C2_OneProcessor == Cardinality(Running) <= 1

\* The status changes the lifecycle allows.
Lifecycle ==
    {<<PENDING, IN_PROGRESS>>, <<IN_PROGRESS, COMPLETED>>, <<IN_PROGRESS, PENDING>>,
     <<IN_PROGRESS, FAILED>>, <<PENDING, CANCELLED>>}

\* C3: a row's status changes only along the lifecycle; completed, failed
\* and cancelled rows never change status.
C3_StatusTransitions ==
    [][ \A i \in RowIds :
          message_queue'[i].status # message_queue[i].status
          => <<message_queue[i].status, message_queue'[i].status>> \in Lifecycle
      ]_vars

\* C4: a row whose delivery has failed five times is failed, and no
\* processor holds it for another attempt.
C4_FifthFailureIsFinal ==
    \A i \in RowIds :
        failures[i] >= 5
        => /\ message_queue[i].status = FAILED
           /\ \A t \in Procs : \A k \in 1..Len(proc[t].batch) : proc[t].batch[k].id # i

\* C5: a failed attempt on a row with retry_count r leaves the row pending
\* with retry_count r + 1 and next_retry the schedule's entry min(r, 3)
\* from now (30, 60, 300, 900 seconds); retry_count is the number of failed
\* attempts so far.
C5_BackoffSchedule ==
    [][ (last'.op = "deliver" /\ ~last'.val)
        => LET i == last'.id
               r == message_queue[i].retry_count IN
           /\ message_queue'[i].status = PENDING
           /\ message_queue'[i].retry_count = r + 1
           /\ message_queue'[i].next_retry = <<30, 60, 300, 900>>[Min(r, 3) + 1]
           /\ message_queue'[i].retry_count = failures'[i]
      ]_vars

\* C6: cancel_message(id) returns true exactly when row id is pending, and
\* then changes only that row's status, to cancelled; when it returns false
\* the table is as it was.
C6_CancelOnlyPending ==
    [][ last'.op = "cancel"
        => LET id == last'.id IN
           /\ last'.val = (id \in RowIds /\ message_queue[id].status = PENDING)
           /\ last'.val => message_queue' = [message_queue EXCEPT ![id].status = CANCELLED]
           /\ ~last'.val => message_queue' = message_queue
      ]_vars

\* A cancel that hit a pending row, and the row is now cancelled.
C6_Witness ==
    /\ last.op = "cancel"
    /\ last.val
    /\ message_queue[last.id].status = CANCELLED

\* C7: once the notifier has asked for a token refresh nothing is sent until
\* the credentials are refreshed, and the row whose send met the request is
\* not put on the backoff path (pending again with retry_count raised).
C7_NoSendUntilRefresh ==
    [][ /\ token_expired => last'.op # "deliver"
        /\ (last'.op = "deliver" /\ last'.arg[2] = "requires_token_refresh")
            => ~ /\ message_queue'[last'.id].status = PENDING
                 /\ message_queue'[last'.id].retry_count
                        > message_queue[last'.id].retry_count
      ]_vars

\* C8: the responder's text is sent whatever status the responder reports;
\* when the notifier accepts it the row is completed and its retry_count is
\* as it was, also when the responder reported an error.
C8_ResponderErrorStillSent ==
    [][ last'.op = "deliver"
        => /\ last'.val = (last'.arg[2] = "ok")
           /\ last'.val
              => /\ message_queue'[last'.id].status = COMPLETED
                 /\ message_queue'[last'.id].retry_count
                        = message_queue[last'.id].retry_count
      ]_vars

\* The responder reported an error, the text was sent and the row completed.
C8_Witness ==
    /\ last.op = "deliver"
    /\ last.arg = <<"error", "ok">>
    /\ last.val
    /\ message_queue[last.id].status = COMPLETED
    /\ message_queue[last.id].retry_count = 0

\* C9: when more than BURST_LIMIT (20) requests of a sender fall within one
\* burst window of 60 s, a call for that sender returns denied, and when it
\* returns a block record for the sender is in the database, ending about
\* 3600 s later.
C9_BurstIsBlocked ==
    \A u \in Users :
        (Len(arrivals[u]) > 20)
        ~> /\ rl_last.op = "check"
           /\ rl_last.user = u
           /\ ~rl_last.allowed
           /\ user_blocks[u] > 0
           /\ user_blocks[u] <= 3600

\* The thresholds of C10 on the marks of a sender, the new one included.
C10_Exceeded(marks) ==
    \/ CountWithin(marks, 3600) > 100
    \/ CountWithin(marks, 60) > 20
    \/ CountWithin(marks, 30) >= 10
    \/ CountWithin(marks, 600) >= 50

\* C10: for a sender with no active block, a call that returns allowed has
\* recorded its mark and none of the four thresholds holds on the marks;
\* and when a threshold holds on the marks recorded, a call returns denied
\* with unblock time 3600 s from now, the block record being in the
\* database by then.
C10_ThresholdsDecide ==
    /\ [][ \A u \in Users :
             (rl_last'.op = "check" /\ rl_last'.user = u /\ rl_last'.allowed)
             => /\ Len(request_counts'[u]) = Len(request_counts[u]) + 1
                /\ request_counts'[u][Len(request_counts'[u])] = 0
                /\ ~C10_Exceeded(request_counts'[u])
          ]_vars
    /\ \A u \in Users :
          (user_blocks[u] = 0 /\ C10_Exceeded(request_counts[u]))
          ~> /\ rl_last.op = "check"
             /\ rl_last.user = u
             /\ ~rl_last.allowed
             /\ rl_last.unblock = 3600
             /\ user_blocks[u] = 3600

C13_DueIsSelected ==
    [][/\ (rs_last'.op = "check" /\ DueReminders # {}) => rs_pc' = "select"
       /\ (rs_pc = "select" /\ rs_pc' # "select") =>
              \A id \in DueReminders : \E k \in 1..Len(due_reminders') : due_reminders'[k] = id]_vars

\* C14: every unsent reminder that is due is eventually attempted and marked
\* sent, with the loop running on its time-outs when no wake signal comes
\* and whatever the notifier does for other reminders; of two reminders of
\* different owners due at the same instant neither keeps the other waiting
\* for ever.
C14_DueEventuallySent ==
    \A id \in 1..MaxReminders :
        (id \in DueReminders)
            ~> (id \in Rows /\ reminders[id].is_sent = 1 /\ reminders[id].attempts = 1)

\* Two reminders of different owners, due at the same instant, have both
\* been attempted and marked sent, the notifier having raised for the last.
C14_Witness ==
    /\ Len(reminders) = 2
    /\ reminders[1].user_id # reminders[2].user_id
    /\ ScheduledTimeUtc(reminders[1]) = ScheduledTimeUtc(reminders[2])
    /\ \A id \in {1, 2} : reminders[id].is_sent = 1 /\ reminders[id].attempts = 1
    /\ rs_last.op = "send"
    /\ rs_last.result = "exception"

\* C15: get_user_reminders(u) lists only reminders of owner u that are
\* unsent: in no reachable state does it include a reminder the scheduler
\* has sent or that cancel_reminder or cancel_all_reminders has cancelled.
C15_ListingOnlyPending ==
    \A u \in Owners :
        \A id \in GetUserReminders(u) :
            /\ reminders[id].user_id = u
            /\ reminders[id].is_sent = 0
            /\ reminders[id].how = "none"

\* An owner with a cancelled reminder and a pending one, which is listed,
\* while the other owner is shown nothing.
C15_Witness ==
    \E u \in Owners :
        /\ GetUserReminders(u) # {}
        /\ \E id \in Rows \ GetUserReminders(u) :
               reminders[id].user_id = u /\ reminders[id].how = "cancel"
        /\ \A v \in Owners \ {u} : GetUserReminders(v) = {}

\* C16: the is_sent flag of a reminder only changes from 0 to 1, never back,
\* and no operation (cancel_reminder, cancel_all_reminders, the scheduler
\* loop, the periodic cleanup of sessions) removes the row of a reminder
\* that is unsent.
C16_UnsentNeverDeleted ==
    [][\A id \in ReminderIds :
          /\ reminders'[id].is_sent >= reminders[id].is_sent
          /\ (~reminders[id].gone /\ reminders'[id].gone) => reminders[id].is_sent = 1]_vars

\* C17: add_reminder called with a scheduled time that does not parse or
\* with a timezone id that is not a time zone returns an error and stores
\* no row: a call that returns an error leaves the table as it was, and
\* every row stored has a scheduled_time that parses and an
\* original_timezone_str that names a time zone.
C17_OnlyValidStored ==
    [][/\ (rs_last'.op = "add" /\ rs_last'.result = "error") => reminders' = reminders
       /\ \A id \in 1..Len(reminders') :
              /\ Parses(reminders'[id].scheduled_time)
              /\ IsTimezone(reminders'[id].original_timezone_str)]_vars

\* C18: a wake signal issued after a reminder was stored is never lost:
\* however notify_new_reminder interleaves with the pre-check, the clearing
\* of the flag and the wait of the idle loop, the loop runs its pre-check
\* again without first waiting out the 60 s time-out.
C18_WakeNotLost ==
    [][(rs_last'.op = "timeout" /\ rs_last'.result = "wait60") => ~signalled]_vars

\* C19: with no mutation under way, for every content the queue table
\* created by _ensure_tables can have, get_queue_status returns a snapshot,
\* not an error, and the counts per status of the snapshot add up to the
\* number of rows of the table.
C19_SnapshotCountsAddUp ==
    /\ ~GetQueueStatus.error
    /\ SumOver(GetQueueStatus.status_counts, DOMAIN GetQueueStatus.status_counts)
           = Len(message_queue)

\* C20: however threads interleave get_connection and return_connection,
\* the active connections of the pool never number more than five; a
\* get_connection made while five are active fails with "Connection pool
\* exhausted" at once and leaves the idle list and the active set as they
\* were.
C20_PoolCapacity ==
    [][/\ Cardinality(active_connections') <= max_connections
       /\ (pool_last'.op = "get" /\ Cardinality(active_connections) = max_connections)
              => /\ pool_last'.result = "exhausted"
                 /\ pool' = pool
                 /\ active_connections' = active_connections]_vars

\* A thread has just been refused a connection, five being active.
C20_Witness ==
    /\ pool_last.op = "get"
    /\ pool_last.result = "exhausted"
    /\ Cardinality(active_connections) = max_connections
    /\ pool = <<>>

\* C21: the lock of one path is exclusive: of the FileLock objects made for
\* the path, at most one has had an acquire return True that no release has
\* followed.
C21_ExclusivePerName ==
    Cardinality({o \in LockIds : fl_hist[o] = "acquired"}) <= 1

\* C22: release() on a FileLock whose lock_handle is not set raises nothing
\* and changes nothing: every object stays as it was, is_locked() is still
\* false, and an acquire that would have succeeded before still succeeds.
C22_ReleaseUnheldIsNoOp ==
    [][\A t \in LockThreads, o \in LockIds :
          (FileLock_Release(t, o) /\ ~file_locks[o][1]) =>
              /\ fl_last'.result = "ok"
              /\ file_locks' = file_locks
              /\ ~file_locks'[o][1]
              /\ CanAcquire(o) => CanAcquire(o)']_vars

\* An acquire that succeeded on an object whose latest release found it not
\* held.
C22_Witness ==
    /\ fl_last.op = "acquire"
    /\ fl_last.result = "True after unheld"

\* C23: an enqueue_message call that carries the id of an inbound event,
\* made when a row of the same owner and payload carries another event id
\* and the call's own id is on no row and not recorded, is accepted: it adds
\* a row whose content hash differs from that row's.
C23_DistinctEventsAccepted ==
    [][ \A i \in RowIds :
          LET E == InboundEventId(last'.metadata)
              D == InboundEventId(message_queue[i].metadata) IN
          ( /\ last'.op = "enqueue"
            /\ E # NoWebhookId
            /\ message_queue[i].user_id = last'.user_id
            /\ message_queue[i].message = last'.message
            /\ D # NoWebhookId
            /\ D # E
            /\ \A j \in RowIds : InboundEventId(message_queue[j].metadata) # E
            /\ E \notin webhook_messages )
          => /\ last'.val
             /\ Len(message_queue') = Len(message_queue) + 1
             /\ message_queue'[Len(message_queue')].message_hash # message_queue[i].message_hash
      ]_vars

\* C24: an iteration of the processor selects only rows that are pending
\* and due, at most BATCH_LIMIT of them, in the order of their creation; and
\* a row is never sent while its next_retry lies in the future.
C24_OnlyDueAttempted ==
    [][ /\ \A t \in Procs :
              (proc[t].pc = "loop" /\ proc'[t].pc = "mark")
              => LET batch == proc'[t].batch IN
                 /\ Len(batch) <= BATCH_LIMIT
                 /\ \A k \in 1..Len(batch) : Due(batch[k].id)
                 /\ \A k \in 1..(Len(batch) - 1) :
                       message_queue[batch[k].id].created_at
                           <= message_queue[batch[k + 1].id].created_at
        /\ (last'.op = "deliver" /\ last' # last)
              => message_queue[last'.id].next_retry = 0
      ]_vars

\* C25: the notifier is called for a reminder only when the UTC instant of
\* its stored scheduled_time and zone has come, and that instant is the same
\* after every step, a change of the owner's time zone among them.
C25_NotBeforeStoredInstant ==
    [][ /\ \A id \in Rows :
              (rs_last'.op = "send" /\ rs_last'.id = id
                  /\ reminders'[id].attempts = reminders[id].attempts + 1)
              => ScheduledTimeUtc(reminders[id]) <= rs_now
        /\ \A id \in Rows :
              ScheduledTimeUtc(reminders'[id]) = ScheduledTimeUtc(reminders[id])
      ]_vars

\* A reminder has been sent whose owner has since set another time zone.
C25_Witness ==
    /\ rs_last.op = "send"
    /\ rs_last.id \in Rows
    /\ reminders[rs_last.id].attempts = 1
    /\ reminders[rs_last.id].original_timezone_str
           # user_timezones[reminders[rs_last.id].user_id]

\* C26: a row that is in_progress when the process stops is in_progress
\* after the restart; a row that is in_progress and in no processor's batch
\* stays so, neither selected nor sent; and a row goes from in_progress to
\* pending only in the delivery step of a processor that handles it.
C26_InProgressStaysAfterRestart ==
    [][ \A i \in RowIds :
          /\ (last'.op = "restart" /\ message_queue[i].status = IN_PROGRESS)
                => (i \in 1..Len(message_queue') /\ Orphaned(i)')
          /\ Orphaned(i) => (i \in 1..Len(message_queue') /\ Orphaned(i)')
          /\ (message_queue[i].status = IN_PROGRESS /\ message_queue'[i].status = PENDING)
                => /\ last'.op = "deliver"
                   /\ last'.id = i
                   /\ \E t \in Procs : proc[t].pc = "process" /\ Head(proc[t].batch).id = i
      ]_vars

\* The application serves again after a restart, its processors running, and
\* a row is still in_progress that no processor handles.
C26_Witness ==
    /\ Serving
    /\ \A t \in Procs : proc[t].pc # "none"
    /\ \E i \in RowIds : Orphaned(i) /\ message_queue[i].committed
    /\ \E i \in RowIds : message_queue[i].status = COMPLETED

\* C27: an iteration of the processor that raised leaves its thread in the
\* loop, and a row that is pending and due after it is attempted in the end:
\* it leaves the pending state or comes back to it with one more retry.
C27_LoopSurvivesErrors ==
    /\ [](last.op = "error" => \E t \in Procs : proc[t].pc # "none")
    /\ \A i \in 1..MaxRows, n \in 0..MaxRetryCount :
          (last.op = "error" /\ i \in RowIds /\ Due(i) /\ message_queue[i].retry_count = n)
              ~> /\ i \in RowIds
                 /\ message_queue[i].status # PENDING \/ message_queue[i].retry_count > n

\* An iteration raised on an exhausted pool while a row was pending and due,
\* and the row has been sent since.
C27_Witness ==
    /\ \E i \in RowIds : message_queue[i].status = COMPLETED /\ failures[i] = 0
    /\ \E t \in Procs : proc[t].pc = "loop"
    /\ last.op = "error"

\* C28: once an enqueue_message carrying the id of an inbound event has been
\* accepted, is_duplicate_webhook is true of that id whatever the cache has
\* dropped, and no second row carrying the id is ever in the queue table.
C28_OneRowPerInboundEvent ==
    /\ \A i \in RowIds :
          LET E == InboundEventId(message_queue[i].metadata) IN
          (E # NoWebhookId /\ message_queue[i].committed)
              => \A expired \in SUBSET wh_cache : IsDuplicateWebhook(E, expired)[1]
    /\ \A i, j \in RowIds :
          LET E == InboundEventId(message_queue[i].metadata) IN
          (E # NoWebhookId /\ InboundEventId(message_queue[j].metadata) = E) => i = j

\* C29: a check_rate_limit whose lookup of the durable block fails does not
\* admit the request: the call returns no allowed = true and does not go on
\* to the limits; and a sender blocked in memory is denied as blocked, the
\* storage not being consulted (a case no run reaches: _block_user never
\* gets to record a block in memory, see C9).
C29_StorageErrorNeverAdmits ==
    [][ \A u \in Users :
          RateIsBlockedStorageError(u)
          => /\ ~rl_last'.allowed
             /\ rl_last'.op \in {"raise", "check"}
             /\ rl_at'[u]["check"] = rl_at[u]["check"]
             /\ blocked_users[u] > 0
                   => rl_last' = Return(u, FALSE, "User is blocked", blocked_users[u])
      ]_vars

\* A call has ended with the storage error, for a sender whose earlier
\* request had been admitted.
C29_Witness ==
    /\ rl_last.op = "raise"
    /\ \E u \in Users : rl_last.user = u /\ Len(request_counts[u]) > 0

\* C30: once stop() has set the stop signal and the wake flag, no wait of
\* the loop runs to its time-out, however the two calls interleave with the
\* loop's pre-check, clear and wait; and the loop sends no reminder once it
\* has seen the stop signal.
C30_StopUnblocksWait ==
    [][ /\ RsTimeout => stop_pc # "done"
        /\ (\E outcome \in SendOutcomes : RsProcess(outcome)) => ~stop_event
      ]_vars

\* C31: every call of check_rate_limit returns: whenever a call of a sender
\* is in flight, a moment comes when no call of that sender is in flight,
\* also when a call finds a threshold exceeded and blocks the sender, and
\* for the calls other threads make meanwhile or afterwards.
C31_EveryCallReturns ==
    \A u \in Users :
        (InFlightIn({u}) > 0) ~> (InFlightIn({u}) = 0)

\* C32: the results of a sender's calls depend on that sender's own marks
\* and block record only.  The watched sender stays below every threshold,
\* so whatever the other sender does, each of its calls returns, denied
\* with the end of its own block when the database holds one for it and
\* allowed otherwise.
C32_OwnHistoryDecides ==
    /\ [][ \A u \in Users :
             (rl_last'.op = "check" /\ rl_last'.user = u)
                 => /\ rl_last'.allowed = (user_blocks[u] = 0)
                    /\ rl_last'.unblock = user_blocks[u] ]_vars
    /\ \A u \in Users : (InFlightIn({u}) > 0) ~> (InFlightIn({u}) = 0)

C34_CancelledNeverProcessed ==
    [][ \A i \in RowIds :
          message_queue[i].status = CANCELLED
          => /\ \A t \in Procs :
                   ~(/\ proc[t].pc = "mark"
                     /\ proc'[t].pc = "process"
                     /\ Head(proc[t].batch).id = i)
             /\ ~(last'.op = "deliver" /\ last'.id = i) ]_vars

\* C35: once cancel_reminder or cancel_all_reminders has marked a reminder
\* and returned success, the notifier is not called for that reminder any
\* more, also when the scheduler had read the reminder into its list of due
\* reminders before the cancel.
C35_CancelledNeverNotified ==
    [][\A id \in ReminderIds :
          reminders[id].how = "cancel"
              => reminders'[id].attempts = reminders[id].attempts]_vars

C37_UnauthorizedNeverProcessed ==
    [][last'.op = "deliver"
          => IsNumberAuthorized(message_queue[last'.id].user_id)]_vars

\* C38: in every state of the pool the idle list and the active set have
\* no connection in common, no connection is twice in the idle list, and
\* idle and active connections together number at most five; no connection
\* is held by two threads, and what a thread holds is active.  Leaving a
\* scope, normally or by an exception, hands the connection back: it is
\* active no more and idle again.  return_connection for a connection that
\* is not active changes nothing.
C38_PoolHandles ==
    /\ [](/\ \A k \in 1..Len(pool) : pool[k] \notin active_connections
          /\ \A j, k \in 1..Len(pool) : pool[j] = pool[k] => j = k
          /\ Len(pool) + Cardinality(active_connections) <= max_connections
          /\ \A t, u \in PoolThreads : t # u => handles[t] \cap handles[u] = {}
          /\ \A t \in PoolThreads : handles[t] \subseteq active_connections)
    /\ [][\A t \in PoolThreads, conn \in 1..(MaxPoolThreads * MaxNesting) :
             /\ ReturnConnection(t, conn)
                    => /\ conn \notin active_connections'
                       /\ conn \notin handles'[t]
                       /\ \E k \in 1..Len(pool') : pool'[k] = conn
             /\ ReturnAgain(t, conn)
                    => UNCHANGED <<pool, active_connections, handles, connections>>]_vars

\* A thread has just handed back for the second time a connection that lies
\* in the idle list, while the other threads hold connections.
C38_Witness ==
    /\ pool_last.op = "return_again"
    /\ Len(pool) > 0
    /\ \E t \in PoolThreads : t # pool_last.thread /\ Cardinality(handles[t]) = MaxNesting
    /\ Len(pool) + Cardinality(active_connections) = max_connections

\* C39: no busy polling.  With every signal given while the loop waits, a
\* wait of the loop returns early only for a signal given since the loop's
\* last due-check, or after the loop has just sent a reminder: a signal wakes
\* the loop once, and the loop that has woken and found nothing to send
\* blocks in its next wait.
C39_NoBusyPolling ==
    [][ RsWake => (signalled \/ rs_last.op = "send") ]_vars

\* C40: an enqueue_message that returns False leaves nothing durable: when
\* it returns, the committed rows of message_queue and the recorded webhook
\* ids are those there were before, and a row that is in the table
\* uncommitted (written by a call that returned False) is not made durable
\* by a later commit on the pooled connection.
C40_RejectedLeavesNoTrace ==
    [][ /\ (last'.op = "enqueue" /\ ~last'.val)
            => /\ {i \in 1..Len(message_queue') : message_queue'[i].committed}
                     = {i \in RowIds : message_queue[i].committed}
               /\ webhook_messages' = webhook_messages
        /\ \A i \in RowIds :
               ~message_queue[i].committed => ~message_queue'[i].committed ]_vars

====
